---- MODULE Spec2Model ----
(***************************************************************************)
(* Batch normalization pipeline of the company-name cleaner:               *)
(* NormalizationService._process_records / _process_chunk /                *)
(* _call_llm_with_retry (app/workers/normalize_worker.py), the exact cache *)
(* (app/stores/cache.py), the near-duplicate index (app/stores/ann.py) and *)
(* the key normalizer (app/llm/postprocess.py).                            *)
(*                                                                         *)
(* Strings are sequences of atoms.  An atom is one whitespace character,   *)
(* one punctuation character, or one maximal run of word characters, so    *)
(* that strip / collapse / lower act on atoms exactly as the Python code   *)
(* acts on the characters.  Python dicts are insertion-ordered: a dict is  *)
(* a sequence of <<key, value>> pairs.                                     *)
(***************************************************************************)
EXTENDS Integers, Sequences, FiniteSets, TLC

\* ------------------------------------------------------------------ bounds
\* Longest request (number of records) explored.
MaxRecords == 3

\* NormalizationService(batch_size=...): the chunk size of the explored service.
BatchSize == 2

\* ------------------------------------------------------------ Python values
\* None where a dict or a model object is expected.
NoneVal == [none |-> TRUE]

\* None where a string is expected.
NoneStr == "None"

\* The exception that leaves _to_response when it reads a missing attribute.
AttributeError == "AttributeError"

INVALID_SUFFIX == "Invalid JSON, return valid JSON only."

CACHE_VERSION == "v16"

\* ---------------------------------------------------------- ordered dicts
RECURSIVE DictFind(_, _, _)
\* Position of key k in dict d at or after position i, 0 when absent.
DictFind(d, k, i) ==
    IF i > Len(d) THEN 0
    ELSE IF d[i][1] = k THEN i
    ELSE DictFind(d, k, i + 1)

DictHas(d, k) == DictFind(d, k, 1) # 0

\* d.get(k): None when the key is absent.
DictGet(d, k) ==
    LET p == DictFind(d, k, 1)
    IN  IF p = 0 THEN NoneVal ELSE d[p][2]

\* d[k] = v: an existing key keeps its position, a new key goes last.
DictSet(d, k, v) ==
    LET p == DictFind(d, k, 1)
    IN  IF p = 0 THEN Append(d, <<k, v>>)
        ELSE [d EXCEPT ![p] = <<k, v>>]

DictKeys(d) == [i \in 1..Len(d) |-> d[i][1]]

\* ------------------------------------------------------------------ strings
Whitespace == {" ", "\t"}

\* The characters of normalized.strip('"\'()[]{}.,;:').
StripChars == {"\"", "'", "(", ")", "[", "]", "{", "}", ".", ",", ";", ":"}

RECURSIVE LStrip(_, _)
LStrip(s, chars) ==
    IF s # <<>> /\ Head(s) \in chars THEN LStrip(Tail(s), chars) ELSE s

RECURSIVE RStrip(_, _)
RStrip(s, chars) ==
    IF s # <<>> /\ s[Len(s)] \in chars
    THEN RStrip(SubSeq(s, 1, Len(s) - 1), chars)
    ELSE s

\* str.strip(chars)
Strip(s, chars) == RStrip(LStrip(s, chars), chars)

RECURSIVE CollapseSpaces(_)
\* re.sub(r"\s+", " ", s): every run of whitespace becomes one space.
CollapseSpaces(s) ==
    IF s = <<>> THEN <<>>
    ELSE IF Head(s) \in Whitespace
         THEN <<" ">> \o CollapseSpaces(LStrip(s, Whitespace))
         ELSE <<Head(s)>> \o CollapseSpaces(Tail(s))

\* The word atoms of the explored names: each with its lower-case, capitalized
\* and upper-case spelling and its length in characters.
WordTable ==
    { [low |-> "acme",   cap |-> "Acme",   up |-> "ACME",   n |-> 4],
      [low |-> "beta",   cap |-> "Beta",   up |-> "BETA",   n |-> 4],
      [low |-> "cached", cap |-> "Cached", up |-> "CACHED", n |-> 6],
      [low |-> "near",   cap |-> "Near",   up |-> "NEAR",   n |-> 4],
      [low |-> "inc",    cap |-> "Inc",    up |-> "INC",    n |-> 3],
      [low |-> "co",     cap |-> "Co",     up |-> "CO",     n |-> 2],
      [low |-> "of",     cap |-> "Of",     up |-> "OF",     n |-> 2],
      [low |-> "tx",     cap |-> "Tx",     up |-> "TX",     n |-> 2],
      [low |-> "ibm",    cap |-> "Ibm",    up |-> "IBM",    n |-> 3],
      [low |-> "facility",   cap |-> "Facility",   up |-> "FACILITY",   n |-> 8],
      [low |-> "services",   cap |-> "Services",   up |-> "SERVICES",   n |-> 8],
      [low |-> "completely", cap |-> "Completely", up |-> "COMPLETELY", n |-> 10],
      [low |-> "different",  cap |-> "Different",  up |-> "DIFFERENT",  n |-> 9],
      [low |-> "brand",      cap |-> "Brand",      up |-> "BRAND",      n |-> 5] }

IsWord(a) == \E e \in WordTable : a \in {e.low, e.cap, e.up}

WordEntry(a) == CHOOSE e \in WordTable : a \in {e.low, e.cap, e.up}

\* str.lower() of one atom.
LowerAtom(a) == IF IsWord(a) THEN WordEntry(a).low ELSE a

Lower(s) == [i \in 1..Len(s) |-> LowerAtom(s[i])]

\* min_clean: NFKC (the identity on the atoms used here), strip, collapse
\* whitespace, strip the outer punctuation, lower-case.
min_clean(value) ==
    LET stripped  == Strip(value, Whitespace)
        collapsed == CollapseSpaces(stripped)
        trimmed   == Strip(collapsed, StripChars)
    IN  Lower(trimmed)

\* exact_cache_key: "norm:" + CACHE_VERSION + ":" + sha1(min_clean(raw_name));
\* the digest is kept as the cleaned string it is computed from.
exact_cache_key(raw_name) == <<"norm", CACHE_VERSION, min_clean(raw_name)>>

\* ------------------------------------------------------- guardrail helpers
STOPWORDS == {"of", "and", "the", "for", "in", "on", "at", "with", "to", "from", "by"}

STATE_CODES ==
    {"al", "ak", "az", "ar", "ca", "co", "ct", "de", "fl", "ga", "hi", "id", "il",
     "in", "ia", "ks", "ky", "la", "me", "md", "ma", "mi", "mn", "ms", "mo", "mt",
     "ne", "nv", "nh", "nj", "nm", "ny", "nc", "nd", "oh", "ok", "or", "pa", "ri",
     "sc", "sd", "tn", "tx", "ut", "vt", "va", "wa", "wv", "wi", "wy"}

ACRONYM_WHITELIST == {"usa", "bsn", "ibm", "uams", "uapb", "mri", "ct", "ltb"}

\* The alternatives of LEGAL_SUFFIX_PATTERNS that can still match once
\* NON_ALNUM_RE has turned every "." into a space: the one-word suffixes ...
SuffixWords ==
    {"incorporated", "inc", "llc", "company", "co", "corp", "corporation",
     "limited", "ltd", "plc", "gmbh", "bv", "ag", "dds", "dmd", "pc", "pa",
     "llp", "md"}

\* ... and the two-word ones, p\s*c, p\s*a and m\s*d.
SuffixPairs == {<<"p", "c">>, <<"p", "a">>, <<"m", "d">>}

\* APOSTROPHE_RE: the characters removed outright.
ApostropheChars == {"'"}

CapAtom(a) == IF IsWord(a) THEN WordEntry(a).cap ELSE a

UpperAtom(a) == IF IsWord(a) THEN WordEntry(a).up ELSE a

\* A character of [\w&], the characters a token of tokenize is made of.
TokenChar(a) == IsWord(a) \/ a = "&"

RECURSIVE TokenizeFrom(_, _)
TokenizeFrom(s, cur) ==
    IF s = <<>> THEN (IF cur = <<>> THEN <<>> ELSE <<cur>>)
    ELSE IF TokenChar(Head(s))
         THEN TokenizeFrom(Tail(s), Append(cur, LowerAtom(Head(s))))
         ELSE (IF cur = <<>> THEN <<>> ELSE <<cur>>) \o TokenizeFrom(Tail(s), <<>>)

\* tokenize: the non-empty pieces of re.split(r"[^\w&]+", value.lower()).
tokenize(value) == TokenizeFrom(value, <<>>)

SeqRange(s) == {s[i] : i \in 1..Len(s)}

\* token_overlap as the fraction <<numerator, denominator>>; 0.0 is <<0, 1>>.
token_overlap(a, b) ==
    LET tokens_a == SeqRange(tokenize(a))
        tokens_b == SeqRange(tokenize(b))
    IN  IF tokens_a = {} \/ tokens_b = {} THEN <<0, 1>>
        ELSE <<Cardinality(tokens_a \cap tokens_b),
               Cardinality(tokens_a \cup tokens_b)>>

RECURSIVE SplitFrom(_, _)
SplitFrom(s, cur) ==
    IF s = <<>> THEN (IF cur = <<>> THEN <<>> ELSE <<cur>>)
    ELSE IF Head(s) \in Whitespace
         THEN (IF cur = <<>> THEN <<>> ELSE <<cur>>) \o SplitFrom(Tail(s), <<>>)
         ELSE SplitFrom(Tail(s), Append(cur, Head(s)))

\* str.split(): the whitespace-separated words.
Split(s) == SplitFrom(s, <<>>)

RECURSIVE Join(_)
\* " ".join(words)
Join(words) ==
    IF words = <<>> THEN <<>>
    ELSE IF Len(words) = 1 THEN Head(words)
    ELSE Head(words) \o <<" ">> \o Join(Tail(words))

\* _smart_case: stopwords, state codes and whitelisted acronyms, else each
\* hyphen-separated part capitalized.
smart_case(word, first) ==
    LET single == Len(word) = 1 /\ IsWord(word[1])
        low    == IF single THEN LowerAtom(word[1]) ELSE ""
    IN  IF single /\ low \in STOPWORDS
        THEN (IF first THEN <<CapAtom(word[1])>> ELSE <<low>>)
        ELSE IF single /\ WordEntry(word[1]).n = 2 /\ low \in STATE_CODES
        THEN <<UpperAtom(word[1])>>
        ELSE IF single /\ word[1] = UpperAtom(word[1]) /\ low \in ACRONYM_WHITELIST
        THEN word
        ELSE [i \in 1..Len(word) |->
                IF i = 1 \/ word[i - 1] = "-"
                THEN CapAtom(word[i]) ELSE LowerAtom(word[i])]

RECURSIVE CollapseMulti(_)
\* MULTISPACE_RE.sub(" ", s): a run of two or more whitespace characters
\* becomes one space, a single whitespace character stays as it is.
CollapseMulti(s) ==
    IF s = <<>> THEN <<>>
    ELSE IF Head(s) \in Whitespace
         THEN LET rest == LStrip(s, Whitespace)
              IN  (IF Len(s) - Len(rest) >= 2 THEN <<" ">> ELSE <<Head(s)>>)
                  \o CollapseMulti(rest)
         ELSE <<Head(s)>> \o CollapseMulti(Tail(s))

\* SUFFIX_RE.sub("", s).strip() on a stripped s: the legal suffix at the tail,
\* with the whitespace before it, removed.
StripSuffix(s) ==
    LET n     == Len(s)
        body  == IF n = 0 THEN <<>> ELSE RStrip(SubSeq(s, 1, n - 1), Whitespace)
        m     == Len(body)
        body2 == IF m = 0 THEN <<>> ELSE RStrip(SubSeq(body, 1, m - 1), Whitespace)
    IN  IF n >= 2 /\ m >= 2 /\ Len(body2) < m - 1
           /\ <<LowerAtom(body[m]), LowerAtom(s[n])>> \in SuffixPairs
        THEN body2
        ELSE IF n >= 2 /\ s[n - 1] \in Whitespace /\ LowerAtom(s[n]) \in SuffixWords
        THEN body
        ELSE s

\* The "& co" exception and re.sub(r"\s+co\.?$", "", s).
StripCo(s) ==
    LET n    == Len(s)
        body == IF n = 0 THEN <<>> ELSE RStrip(SubSeq(s, 1, n - 1), Whitespace)
    IN  IF n >= 2 /\ s[n - 1] \in Whitespace /\ LowerAtom(s[n]) = "co"
           /\ ~(body # <<>> /\ body[Len(body)] = "&")
        THEN body
        ELSE s

\* APOSTROPHE_RE.sub("", name)
RemoveApostrophes(s) == SelectSeq(s, LAMBDA a : a \notin ApostropheChars)

\* NON_ALNUM_RE.sub(" ", name): all but [\w\s&-] becomes a space.
NonAlnumToSpace(s) ==
    [i \in 1..Len(s) |->
        IF IsWord(s[i]) \/ s[i] \in Whitespace \cup {"&", "-"} THEN s[i] ELSE " "]

\* The last lines of clean_company_name: a trailing "&" gets its "Co" back.
JoinStyled(styled) ==
    Join(IF styled # <<>> /\ styled[Len(styled)] = <<"&">>
         THEN Append(styled, <<"Co">>) ELSE styled)

StyleTokens(tokens) ==
    JoinStyled([i \in 1..Len(tokens) |-> smart_case(tokens[i], i = 1)])

clean_company_name(name) ==
    IF name = <<>> THEN <<>>
    ELSE StyleTokens(Split(StripCo(StripSuffix(
            Strip(CollapseMulti(NonAlnumToSpace(RemoveApostrophes(name))),
                  Whitespace)))))

\* GuardrailResult: the fields of the dataclass.
GuardrailResultFields ==
    {"canonical", "is_new", "confidence", "reason", "key_form", "display_form",
     "raw_reason", "flags"}

\* A slip that takes one half for the threshold.
LowOverlap_Half(overlap) == 2 * overlap[1] < overlap[2]

\* overlap < 0.3, for the fraction token_overlap returns.
LowOverlap(overlap) == 10 * overlap[1] < 3 * overlap[2]

\* apply_guardrails, lines 111-132: the overlap cap, the display form and the
\* result, once canonical, confidence and flags are settled by lines 100-109.
GuardrailResult(raw_name, payload, canonical, confidence, flags, low, display) ==
    [canonical    |-> canonical,
     is_new       |-> payload.is_new,
     confidence   |-> IF low /\ confidence > 50 THEN 50 ELSE confidence,
     reason       |-> IF payload.reason \notin {NoneStr, ""}
                      THEN payload.reason ELSE NoneStr,
     key_form     |-> min_clean(canonical),
     display_form |-> IF display = <<>> THEN clean_company_name(raw_name) ELSE display,
     raw_reason   |-> payload.reason,
     flags        |-> (flags \o (IF low THEN <<"low_token_overlap">> ELSE <<>>))
                      \o (IF display = <<>> THEN <<"fallback_display">> ELSE <<>>)]

\* apply_guardrails, lines 106-116, with canonical and confidence as read.
GuardCanonical(raw_name, payload, canonical, confidence, flags) ==
    GuardrailResult(raw_name, payload, canonical, confidence, flags,
                    LowOverlap(token_overlap(raw_name, canonical)),
                    clean_company_name(canonical))

\* A slip that keeps the payload's confidence for an empty canonical.
GuardStripped_KeepConfidence(raw_name, payload, canonical) ==
    IF canonical = <<>>
    THEN GuardCanonical(raw_name, payload, clean_company_name(raw_name),
                        payload.confidence, <<"empty_canonical">>)
    ELSE GuardCanonical(raw_name, payload, canonical, payload.confidence, <<>>)

\* apply_guardrails, lines 100-109, for the stripped canonical of the payload.
GuardStripped(raw_name, payload, canonical) ==
    IF canonical = <<>>
    THEN GuardCanonical(raw_name, payload, clean_company_name(raw_name), 0,
                        <<"empty_canonical">>)
    ELSE GuardCanonical(raw_name, payload, canonical, payload.confidence, <<>>)

\* Confidence is in hundredths: 0.5 is 50, 1.0 is 100.
apply_guardrails(raw_name, payload) ==
    GuardStripped(raw_name, payload, Strip(payload.canonical, Whitespace))

\* ------------------------------------------------------------------ payloads
\* A ClassifierPayload; confidence in hundredths.
PayloadOf(canon, conf) ==
    [canonical |-> canon, canonical_with_article |-> canon,
     article_policy |-> "none", is_new |-> FALSE, confidence |-> conf,
     reason |-> "ok"]

\* What the classifier answers with: a well-formed payload, and the payload
\* with an empty canonical that the schema rejects.
ValidPayload == PayloadOf(<<"Acme">>, 92)

InvalidPayload == PayloadOf(<<>>, 90)

\* An entry put into the exact cache by an earlier request.
CachedPayload == PayloadOf(<<"Cached">>, 88)

\* The payload stored with a near-duplicate match.
NearPayload == PayloadOf(<<"Near">>, 80)

\* A payload stored with a near-duplicate match that no schema has checked.
OverconfidentPayload == PayloadOf(<<"Acme">>, 150)

\* The payloads the near-duplicate index can hold.
NearPayloads == {NearPayload, OverconfidentPayload}

ARTICLE_POLICIES == {"none", "optional", "required", "official"}

\* self.validator.validate(payload): TRUE when no ValidationError is raised.
validate(payload) ==
    /\ payload.canonical # <<>>
    /\ payload.confidence \in 0..100
    /\ payload.article_policy \in ARTICLE_POLICIES

\* --------------------------------------------------------- requests, records
\* The raw names of the explored requests: the first two share a cache key.
RawNames == {<<"Acme">>, <<"ACME", ".">>, <<"Beta">>}

\* The raw names the near-duplicate index can match.
NearNames == {<<"Acme">>, <<"Beta">>}

\* Two spellings of one company name.
AcmeInc == <<"Acme", " ", "Inc">>

AcmeIncUpper == <<"ACME", ",", " ", "INC", ".">>

PairNames == {AcmeInc, AcmeIncUpper}

AllKeys == {exact_cache_key(r) : r \in RawNames \cup NearNames \cup PairNames}

NormalizeRecord(id, raw_name) == [id |-> id, raw_name |-> raw_name, source |-> "csv"]

PendingItem(id, raw_name, source, cache_key, retry_suffix) ==
    [id |-> id, raw_name |-> raw_name, source |-> source,
     cache_key |-> cache_key, retry_suffix |-> retry_suffix]

\* NormalizeResponseItem(id, raw_name, cached, result, error)
NormalizeResponseItem(id, raw_name, cached, result, error) ==
    [id |-> id, raw_name |-> raw_name, cached |-> cached,
     result |-> result, error |-> error]

Exceptions == {AttributeError, "ValidationError"}

\* _to_response reads guard.canonical_with_article and guard.article_policy,
\* which GuardrailResult does not have: the attribute access raises.
\* CanonicalResult validates 0 <= confidence <= 1.
_to_response(record, guard, cached) ==
    IF ~({"canonical", "canonical_with_article", "article_policy", "is_new",
          "confidence", "reason", "key_form", "display_form", "flags"}
            \subseteq DOMAIN guard)
    THEN AttributeError
    ELSE IF guard.confidence \notin 0..100
    THEN "ValidationError"
    ELSE NormalizeResponseItem(record.id, record.raw_name, cached,
            [canonical |-> guard.canonical,
             canonical_with_article |-> guard.canonical_with_article,
             article_policy |-> guard.article_policy,
             is_new |-> guard.is_new,
             confidence |-> guard.confidence, reason |-> guard.reason,
             key_form |-> guard.key_form, display_form |-> guard.display_form,
             flags |-> guard.flags],
            NoneStr)

\* --------------------------------------------------------------- exact cache
\* cache_get with the store answering: the remote store when the first ping
\* succeeded, the in-memory fallback otherwise.  Entries live for TTL_SECONDS
\* (a year), so none expires within a request.
\* cache_get, lines 57-77: with the remote store available the answer is
\* the store's, None when it has no entry (line 63); when the call to the
\* store raises, or the store was unavailable at the first ping, the answer
\* is the entry of _memory_cache.
cache_get_call(cs, avail, redis_error, key) ==
    IF avail /\ ~redis_error THEN cs.redis[key] ELSE cs.memory[key]

\* cache_set, lines 80-92: setex on the remote store and return; when that
\* raises, or the store was unavailable at the first ping, the entry goes
\* to _memory_cache.
cache_set_call(cs, avail, redis_error, key, value) ==
    IF avail /\ ~redis_error THEN [cs EXCEPT !.redis[key] = value]
    ELSE [cs EXCEPT !.memory[key] = value]

cache_get(cs, avail, key) == cache_get_call(cs, avail, FALSE, key)

cache_set(cs, avail, key, value) == cache_set_call(cs, avail, FALSE, key, value)

\* What index.query(raw_name, threshold) can answer: nothing (always, for the
\* NullIndex), or a NearDupeMatch whose cache_key is the key of the matched name.
IndexAnswers ==
    {NoneVal} \cup
    {[raw_name |-> r, cache_key |-> exact_cache_key(r), payload |-> p] :
        r \in NearNames, p \in {NoneVal} \cup NearPayloads}

\* near_dupe_lookup: the payload it returns and the cache it leaves.
near_dupe_lookup(cs, avail, candidate) ==
    IF candidate = NoneVal THEN [payload |-> NoneVal, cache |-> cs]
    ELSE LET cached == cache_get(cs, avail, candidate.cache_key)
         IN  IF cached # NoneVal THEN [payload |-> cached, cache |-> cs]
             ELSE IF candidate.payload # NoneVal
             THEN [payload |-> candidate.payload,
                   cache |-> cache_set(cs, avail, candidate.cache_key, candidate.payload)]
             ELSE [payload |-> NoneVal, cache |-> cs]


\* ------------------------------------------------------------------ state
VARIABLES
    records,              \* the request: _process_records' argument
    redis_available,      \* _redis_available after the first ping
    cache,                \* the exact cache: the remote store and _memory_cache
    pc,                   \* where _process_records stands
    exc,                  \* the exception that left _process_records, or None
    start,                \* offset of the current chunk in records
    idx,                  \* loop index: record of the chunk, success, duplicate
    outputs, errors,      \* _process_chunk's locals
    pending, lookup_by_id, cache_key_by_id,
    seen_in_batch, deferred_duplicates, payload_by_cache_key,
    successes, failures,  \* _call_llm_with_retry's locals
    retry_queue, attempt,
    responses, all_errors, \* _process_records' responses and errors
    llm_calls,            \* history: the classifier calls made, in order
    probes,               \* history: how each probed record was routed
    validated,            \* history: validate() calls per record id
    job_status,           \* JobRun.status of the job
    success_count,        \* JobRun.success_count
    error_count,          \* JobRun.error_count
    redelivered,          \* run_ingest_job was invoked again for the job
    guard_input,          \* the arguments of a stand-alone apply_guardrails call
    guard_output,         \* and what it returned
    memory_fresh,         \* _memory_cache: entries whose expiry lies ahead
    memory_expired,       \* _memory_cache: entries whose expiry has passed
    clean_input,          \* the argument of a stand-alone min_clean call
    clean_output,         \* and what it returned, applied once and twice
    race_pc,              \* concurrent requests: where each one stands
    race_payload,         \* concurrent requests: the payload each one got
    batch_items,          \* normalize_batch_gpt4o_mini: its argument
    futures,              \* normalize_batch_gpt4o_mini: state of each future
    results,              \* normalize_batch_gpt4o_mini: the results list
    batch_return,         \* normalize_batch_gpt4o_mini: what it returned
    cache_written,        \* cache calls: the value last passed to cache_set, per key
    cache_read            \* cache calls: the key and the answer of the last cache_get

vars ==
    <<records, redis_available, cache, pc, exc, start, idx, outputs, errors,
      pending, lookup_by_id, cache_key_by_id, seen_in_batch,
      deferred_duplicates, payload_by_cache_key, successes, failures,
      retry_queue, attempt, responses, all_errors, llm_calls, probes, validated,
      job_status, success_count, error_count, redelivered,
      guard_input, guard_output, memory_fresh, memory_expired,
      clean_input, clean_output, race_pc, race_payload,
      batch_items, futures, results, batch_return,
      cache_written, cache_read>>

job_vars == <<job_status, success_count, error_count, redelivered>>

guard_vars == <<guard_input, guard_output>>

memory_vars == <<memory_fresh, memory_expired>>

clean_vars == <<clean_input, clean_output>>

race_vars == <<race_pc, race_payload>>

batch_vars == <<batch_items, futures, results, batch_return>>

call_vars == <<cache_written, cache_read>>

\* The variables of the operations explored on their own.
side_vars ==
    <<guard_vars, memory_vars, clean_vars, race_vars, batch_vars, call_vars>>

chunk_locals ==
    <<outputs, errors, pending, lookup_by_id, cache_key_by_id, seen_in_batch,
      deferred_duplicates, payload_by_cache_key>>

retry_locals == <<successes, failures, retry_queue, attempt>>

Min(a, b) == IF a < b THEN a ELSE b

\* batched(records, size): the chunk that starts at offset start.
batched(start_, size) ==
    SubSeq(records, start_ + 1, Min(start_ + size, Len(records)))

Chunk == batched(start, BatchSize)

EmptyCache == [k \in AllKeys |-> NoneVal]

\* The operations explored on their own are not in use.
GuardIdle == guard_input = NoneVal /\ guard_output = NoneVal

MemoryIdle == memory_fresh = 0 /\ memory_expired = 0

CleanIdle == clean_input = NoneVal /\ clean_output = NoneVal

RaceIdle == race_pc = <<>> /\ race_payload = <<>>

BatchIdle ==
    /\ batch_items = <<>> /\ futures = <<>> /\ results = <<>>
    /\ batch_return = <<>>

CallIdle == cache_written = <<>> /\ cache_read = NoneVal

\* _process_records is not running and has left nothing behind.
PipelineIdle ==
    /\ records = <<>>
    /\ exc = NoneStr
    /\ job_status = "queued"
    /\ success_count = 0
    /\ error_count = 0
    /\ redelivered = FALSE
    /\ start = 0
    /\ idx = 1
    /\ outputs = <<>> /\ errors = <<>> /\ pending = <<>>
    /\ lookup_by_id = <<>> /\ cache_key_by_id = <<>> /\ seen_in_batch = <<>>
    /\ deferred_duplicates = <<>> /\ payload_by_cache_key = <<>>
    /\ successes = <<>> /\ failures = <<>> /\ retry_queue = <<>> /\ attempt = 0
    /\ responses = <<>> /\ all_errors = <<>>
    /\ llm_calls = <<>>
    /\ probes = <<>>
    /\ validated = [i \in 1..MaxRecords |-> 0]

\* The job is queued: its records are up to longest names out of raw_names, and
\* earlier requests may have left entries for their keys in the exact cache.
InitOver(raw_names, longest) ==
    /\ \E n \in 0..longest :
         \E names \in [1..n -> raw_names] :
            records = [i \in 1..n |-> NormalizeRecord(i, names[i])]
    /\ redis_available \in BOOLEAN
    /\ \E seeded \in SUBSET {exact_cache_key(r) : r \in raw_names} :
         LET store == [k \in AllKeys |-> IF k \in seeded THEN CachedPayload ELSE NoneVal]
         IN  cache = IF redis_available
                     THEN [redis |-> store, memory |-> EmptyCache]
                     ELSE [redis |-> EmptyCache, memory |-> store]
    /\ pc = "queued"
    /\ exc = NoneStr
    /\ job_status = "queued"
    /\ success_count = 0
    /\ error_count = 0
    /\ redelivered = FALSE
    /\ GuardIdle /\ MemoryIdle /\ CleanIdle /\ RaceIdle /\ BatchIdle /\ CallIdle
    /\ start = 0
    /\ idx = 1
    /\ outputs = <<>> /\ errors = <<>> /\ pending = <<>>
    /\ lookup_by_id = <<>> /\ cache_key_by_id = <<>> /\ seen_in_batch = <<>>
    /\ deferred_duplicates = <<>> /\ payload_by_cache_key = <<>>
    /\ successes = <<>> /\ failures = <<>> /\ retry_queue = <<>> /\ attempt = 0
    /\ responses = <<>> /\ all_errors = <<>>
    /\ llm_calls = <<>>
    /\ probes = <<>>
    /\ validated = [i \in 1..MaxRecords |-> 0]

Init == InitOver(RawNames, MaxRecords)

\* ------------------------------------- run_ingest_job, process_job: the start
\* What the ingest dict of run_ingest_job names: an upload file that exists, a
\* signed URL, or nothing usable.
IngestTargets == {"upload", "signed_url", "nothing"}

\* Where run_ingest_job and process_job have ended.
Ended == {"job_done", "job_failed", "ingest_raised", "store_raised"}

\* What session_scope raises when the relational store fails: it rolls back
\* and raises the exception again (db.py, lines 98-108).
StoreError == "OperationalError"

\* set_job_status, db.py lines 206-213: the UPDATE runs in a session_scope
\* with no handler around it; stored tells whether the store took it.  The
\* caller goes on as on_ok when it did and as on_error when it raised.
set_job_status(status, stored, on_ok, on_error) ==
    IF stored THEN on_ok ELSE on_error

\* run_ingest_job, lines 310-328, up to the call of _process_records at line
\* 257: set_job_status(running) at line 315 and again at line 255.  The
\* queue may deliver the job a second time; the records are those of the
\* same upload, the exact cache is as the first run left it.
RunIngest(answers) ==
    /\ pc = "queued" \/ (pc \in Ended /\ ~redelivered)
    /\ redelivered' = (pc # "queued")
    /\ \E target \in IngestTargets, stored_315 \in answers, stored_255 \in answers :
        LET ingest == IF target = "upload"
                      THEN set_job_status("running", stored_255,
                               [pc |-> IF records = <<>> THEN "returned" ELSE "probe",
                                exc |-> NoneStr, status |-> "running"],
                               [pc |-> "store_raised", exc |-> StoreError,
                                status |-> "running"])
                      ELSE [pc |-> "ingest_raised",
                            exc |-> IF target = "signed_url"
                                    THEN "NotImplementedError" ELSE "RuntimeError",
                            status |-> "running"]
            after == set_job_status("running", stored_315, ingest,
                         [pc |-> "store_raised", exc |-> StoreError,
                          status |-> job_status])
        IN  /\ pc' = after.pc
            /\ exc' = after.exc
            /\ job_status' = after.status
    /\ start' = 0
    /\ idx' = 1
    /\ outputs' = <<>> /\ errors' = <<>> /\ pending' = <<>>
    /\ lookup_by_id' = <<>> /\ cache_key_by_id' = <<>> /\ seen_in_batch' = <<>>
    /\ deferred_duplicates' = <<>> /\ payload_by_cache_key' = <<>>
    /\ successes' = <<>> /\ failures' = <<>> /\ retry_queue' = <<>> /\ attempt' = 0
    /\ responses' = <<>> /\ all_errors' = <<>>
    /\ llm_calls' = <<>>
    /\ probes' = <<>>
    /\ validated' = [i \in 1..MaxRecords |-> 0]
    /\ UNCHANGED <<records, redis_available, cache, success_count, error_count,
                   side_vars>>

\* ------------------------------------------------ _process_chunk, lines 82-119
\* A slip that asks the near-duplicate index before the exact cache.
TierLookups_IndexFirst(dup, hit) ==
    IF dup THEN <<"batch">> ELSE <<"batch", "index", "cache">>

\* The lookups made for one record, in the order of the code: seen_in_batch
\* at line 86 (then continue), cache_get at line 91 (on a hit, continue at
\* line 98), near_dupe_lookup at line 100.
TierLookups(dup, hit) ==
    IF dup THEN <<"batch">>
    ELSE IF hit THEN <<"batch", "cache">>
    ELSE <<"batch", "cache", "index">>

\* One iteration of the loop over the chunk's records.
ProbeRecord ==
    /\ pc = "probe"
    /\ idx <= Len(Chunk)
    /\ \E candidate \in IndexAnswers :
        LET record         == Chunk[idx]
            cache_key      == exact_cache_key(record.raw_name)
            dup            == DictHas(seen_in_batch, cache_key)
            cached_payload == cache_get(cache, redis_available, cache_key)
            hit            == ~dup /\ cached_payload # NoneVal
            near           == near_dupe_lookup(cache, redis_available, candidate)
            nearhit        == ~dup /\ ~hit /\ near.payload # NoneVal
            miss           == ~dup /\ ~hit /\ ~nearhit
            payload        == IF hit THEN cached_payload ELSE near.payload
            resp           == _to_response(record,
                                  apply_guardrails(record.raw_name, payload), TRUE)
            raises         == (hit \/ nearhit) /\ resp \in Exceptions
        IN  /\ cache' = IF nearhit
                        THEN cache_set(near.cache, redis_available, cache_key, near.payload)
                        ELSE IF miss THEN near.cache ELSE cache
            /\ outputs' = IF (hit \/ nearhit) /\ ~raises
                          THEN Append(outputs, resp) ELSE outputs
            /\ seen_in_batch' = IF dup \/ raises THEN seen_in_batch
                                ELSE DictSet(seen_in_batch, cache_key, record.id)
            /\ deferred_duplicates' =
                    IF dup THEN Append(deferred_duplicates, <<record, cache_key>>)
                    ELSE deferred_duplicates
            /\ pending' = IF miss
                          THEN Append(pending, PendingItem(record.id, record.raw_name,
                                                  record.source, cache_key, NoneStr))
                          ELSE pending
            /\ lookup_by_id' = IF miss THEN DictSet(lookup_by_id, record.id, record)
                               ELSE lookup_by_id
            /\ cache_key_by_id' = IF miss THEN DictSet(cache_key_by_id, record.id, cache_key)
                                  ELSE cache_key_by_id
            /\ probes' = Append(probes,
                    [id |-> record.id, start |-> start,
                     tier |-> IF dup THEN "dup" ELSE IF hit THEN "hit"
                              ELSE IF nearhit THEN "near" ELSE "miss",
                     payload |-> IF hit \/ nearhit THEN payload ELSE NoneVal,
                     lookups |-> TierLookups(dup, hit)])
            /\ pc' = IF raises THEN "raised" ELSE "probe"
            /\ exc' = IF raises THEN resp ELSE exc
            /\ idx' = IF raises THEN idx ELSE idx + 1
    /\ UNCHANGED <<records, job_vars, side_vars, redis_available, start, errors, payload_by_cache_key,
                   successes, failures, retry_queue, attempt, responses,
                   all_errors, llm_calls, validated>>

\* Lines 121-126: after the loop, call _call_llm_with_retry if anything is pending.
AfterProbe ==
    /\ pc = "probe"
    /\ idx > Len(Chunk)
    /\ payload_by_cache_key' = <<>>
    /\ IF pending # <<>>
       THEN /\ pc' = "llm"
            /\ successes' = <<>>
            /\ failures' = <<>>
            /\ retry_queue' = pending
            /\ attempt' = 0
            /\ idx' = idx
       ELSE /\ pc' = "deferred"
            /\ idx' = 1
            /\ UNCHANGED retry_locals
    /\ UNCHANGED <<records, job_vars, side_vars, redis_available, cache, exc, start, outputs, errors,
                   pending, lookup_by_id, cache_key_by_id, seen_in_batch,
                   deferred_duplicates, responses, all_errors, llm_calls, probes, validated>>


\* ------------------------------------------- _call_llm_with_retry, lines 175-232
\* What the classifier does with one item of a call: a row with a payload
\* that passes the schema, a row with one that does not, a row without
\* payload, or no row at all.
RowKinds == {"valid", "invalid", "no_payload", "missing"}

RowFor(item, kind) ==
    [id |-> item.id, raw_name |-> item.raw_name,
     payload |-> CASE kind = "valid"   -> ValidPayload
                   [] kind = "invalid" -> InvalidPayload
                   [] OTHER            -> NoneVal]

\* A row whose id belongs to no item of the call.
UnknownRow == [id |-> 0, raw_name |-> <<>>, payload |-> ValidPayload]

RECURSIVE RowsFrom(_, _, _)
RowsFrom(queue, kinds, i) ==
    IF i > Len(queue) THEN <<>>
    ELSE (IF kinds[i] = "missing" THEN <<>> ELSE <<RowFor(queue[i], kinds[i])>>)
         \o RowsFrom(queue, kinds, i + 1)

\* llm_rows: what normalize_batch_gpt4o_mini returned.
LLMRows(queue, kinds, extra) ==
    RowsFrom(queue, kinds, 1) \o (IF extra THEN <<UnknownRow>> ELSE <<>>)

RECURSIVE RowsById(_, _, _)
\* response_by_id = {row.get("id"): row for row in llm_rows}
RowsById(rows, i, d) ==
    IF i > Len(rows) THEN d
    ELSE RowsById(rows, i + 1, DictSet(d, rows[i].id, rows[i]))

\* The request list of one call.
RequestItems(queue) ==
    [i \in 1..Len(queue) |->
        [id |-> queue[i].id, raw_name |-> queue[i].raw_name,
         retry_suffix |-> queue[i].retry_suffix]]

RECURSIVE MarkAll(_, _, _, _)
\* for item in queue: failures[item.id] = kind
MarkAll(queue, i, d, kind) ==
    IF i > Len(queue) THEN d
    ELSE MarkAll(queue, i + 1, DictSet(d, queue[i].id, kind), kind)

\* A slip that forgets the item whose row is missing.
OnMissingRow_Dropped(acc, pending_item) == acc

\* Lines 202-204: no row for the item.
OnMissingRow(acc, pending_item) ==
    [acc EXCEPT !.failures = DictSet(@, pending_item.id, "missing_response")]

\* A slip that queues the item without payload for the second attempt.
OnNoPayload_Requeued(acc, pending_item) ==
    [acc EXCEPT !.next_retry = Append(@, pending_item)]

\* Lines 205-208: the row has no payload.
OnNoPayload(acc, pending_item) ==
    [acc EXCEPT !.failures = DictSet(@, pending_item.id, "llm_call_failed")]

\* A slip that queues the item again as it was sent the first time.
RetryItem_NoSuffix(pending_item) == pending_item

\* Lines 216-222: the item of the second attempt.
RetryItem(pending_item) ==
    PendingItem(pending_item.id, pending_item.raw_name, pending_item.source,
                pending_item.cache_key, INVALID_SUFFIX)

\* Lines 200-225 for one item of the retry queue.
HandleRow(pending_item, response_by_id, attempt_, acc) ==
    LET row == DictGet(response_by_id, pending_item.id)
    IN  IF row = NoneVal
        THEN OnMissingRow(acc, pending_item)
        ELSE IF row.payload = NoneVal
        THEN OnNoPayload(acc, pending_item)
        ELSE IF ~validate(row.payload)
        THEN IF attempt_ = 0
             THEN [acc EXCEPT !.validated[pending_item.id] = @ + 1,
                              !.next_retry = Append(@, RetryItem(pending_item))]
             ELSE [acc EXCEPT !.validated[pending_item.id] = @ + 1,
                              !.failures = DictSet(@, pending_item.id, "invalid_output")]
        ELSE [acc EXCEPT !.validated[pending_item.id] = @ + 1,
                         !.successes = DictSet(@, pending_item.id, row.payload)]

RECURSIVE HandleRows(_, _, _, _, _)
HandleRows(queue, i, response_by_id, attempt_, acc) ==
    IF i > Len(queue) THEN acc
    ELSE HandleRows(queue, i + 1, response_by_id, attempt_,
                    HandleRow(queue[i], response_by_id, attempt_, acc))

\* The loop of line 180 is over: two attempts made, or nothing left to retry.
LoopDone == attempt >= 2 \/ retry_queue = <<>>

\* A slip that never counts the attempts.
NextAttempt_Stuck(attempt_) == attempt_

\* Line 180: for attempt in range(2), the next value of attempt.
NextAttempt(attempt_) == attempt_ + 1

\* Lines 183-196: the classifier call raises.
LLMRaises ==
    /\ pc = "llm"
    /\ ~LoopDone
    /\ failures' = MarkAll(retry_queue, 1, failures, "llm_call_failed")
    /\ llm_calls' = Append(llm_calls,
            [start |-> start, attempt |-> attempt, items |-> RequestItems(retry_queue),
             raised |-> TRUE, kinds |-> <<>>])
    /\ pc' = "broke"
    /\ UNCHANGED <<records, job_vars, side_vars, redis_available, cache, exc, start, idx, chunk_locals,
                   successes, retry_queue, attempt, responses, all_errors, probes,
                   validated>>

\* Lines 183-227: the classifier call returns rows, each item is settled or
\* queued for the retry.
LLMResponds ==
    /\ pc = "llm"
    /\ ~LoopDone
    /\ \E kinds \in [1..Len(retry_queue) -> RowKinds], extra \in BOOLEAN :
        LET llm_rows       == LLMRows(retry_queue, kinds, extra)
            response_by_id == RowsById(llm_rows, 1, <<>>)
            done == HandleRows(retry_queue, 1, response_by_id, attempt,
                        [successes |-> successes, failures |-> failures,
                         next_retry |-> <<>>, validated |-> validated])
        IN  /\ successes' = done.successes
            /\ failures' = done.failures
            /\ retry_queue' = done.next_retry
            /\ validated' = done.validated
            /\ llm_calls' = Append(llm_calls,
                    [start |-> start, attempt |-> attempt,
                     items |-> RequestItems(retry_queue),
                     raised |-> FALSE, kinds |-> kinds])
    /\ attempt' = NextAttempt(attempt)
    /\ pc' = "llm"
    /\ UNCHANGED <<records, job_vars, side_vars, redis_available, cache, exc, start, idx, chunk_locals,
                   responses, all_errors, probes>>

\* Lines 229-232: whatever is still in retry_queue fails with invalid_output,
\* and (successes, failures) go back to _process_chunk.
AfterLoop ==
    /\ IF pc = "llm" THEN LoopDone ELSE pc = "broke"
    /\ failures' = MarkAll(retry_queue, 1, failures, "invalid_output")
    /\ pc' = "merge"
    /\ idx' = 1
    /\ UNCHANGED <<records, job_vars, side_vars, redis_available, cache, exc, start, chunk_locals,
                   successes, retry_queue, attempt, responses, all_errors,
                   llm_calls, probes, validated>>


\* ----------------------------------------------- _process_chunk, lines 127-173
\* Lines 127-133, one iteration: a success is cached and turned into a response.
MergeSuccess ==
    /\ pc = "merge"
    /\ idx <= Len(successes)
    /\ LET item_id == successes[idx][1]
           payload == successes[idx][2]
           record  == DictGet(lookup_by_id, item_id)
           guard   == apply_guardrails(record.raw_name, payload)
           key     == DictGet(cache_key_by_id, item_id)
           resp    == _to_response(record, guard, FALSE)
           raises  == resp \in Exceptions
       IN  /\ cache' = cache_set(cache, redis_available, key, payload)
           /\ payload_by_cache_key' = DictSet(payload_by_cache_key, key, payload)
           /\ outputs' = IF raises THEN outputs ELSE Append(outputs, resp)
           /\ pc' = IF raises THEN "raised" ELSE "merge"
           /\ exc' = IF raises THEN resp ELSE exc
           /\ idx' = IF raises THEN idx ELSE idx + 1
    /\ UNCHANGED <<records, job_vars, side_vars, redis_available, start, errors, pending, lookup_by_id,
                   cache_key_by_id, seen_in_batch, deferred_duplicates,
                   retry_locals, responses, all_errors, llm_calls, probes, validated>>

\* A slip that flags the item of a failed record as cached.
ErrorItem_Cached(record, error) ==
    NormalizeResponseItem(record.id, record.raw_name, TRUE, NoneVal, error)

\* A slip that builds the item of a failed record without its error.
ErrorItem_NoError(record, error) ==
    NormalizeResponseItem(record.id, record.raw_name, FALSE, NoneVal, NoneStr)

\* The response item of a record that ended in an error.
ErrorItem(record, error) ==
    NormalizeResponseItem(record.id, record.raw_name, FALSE, NoneVal, error)

\* A slip that walks the failures from the last one to the first.
FailureOutputs_Reversed ==
    [i \in 1..Len(failures) |->
        ErrorItem(DictGet(lookup_by_id, failures[Len(failures) + 1 - i][1]),
                  failures[Len(failures) + 1 - i][2])]

\* Lines 135-144: for item_id, error in failures.items(), one error item each.
FailureOutputs ==
    [i \in 1..Len(failures) |->
        ErrorItem(DictGet(lookup_by_id, failures[i][1]), failures[i][2])]

\* Lines 135-145: every failure becomes an error item and an "id:error" entry.
\* A slip that stores a payload under the key of the first failed item.
CacheAfterFailures_Stored ==
    IF failures = <<>> THEN cache
    ELSE cache_set(cache, redis_available,
                   DictGet(cache_key_by_id, failures[1][1]), ValidPayload)

\* Lines 134-145: the loop over failures makes no call to cache_set.
CacheAfterFailures == cache

MergeFailures ==
    /\ pc = "merge"
    /\ idx > Len(successes)
    /\ cache' = CacheAfterFailures
    /\ outputs' = outputs \o FailureOutputs
    /\ errors' = errors \o
            [i \in 1..Len(failures) |->
                <<DictGet(lookup_by_id, failures[i][1]).id, failures[i][2]>>]
    /\ pc' = "deferred"
    /\ idx' = 1
    /\ UNCHANGED <<records, job_vars, side_vars, redis_available, exc, start, pending,
                   lookup_by_id, cache_key_by_id, seen_in_batch,
                   deferred_duplicates, payload_by_cache_key, retry_locals,
                   responses, all_errors, llm_calls, probes, validated>>

\* payload_by_cache_key.get(cache_key) or cache_get(cache_key)
DeferredPayload(cache_key) ==
    IF DictGet(payload_by_cache_key, cache_key) # NoneVal
    THEN DictGet(payload_by_cache_key, cache_key)
    ELSE cache_get(cache, redis_available, cache_key)

\* Lines 148-164, one iteration: a deferred duplicate reuses the payload of its
\* first occurrence, or becomes duplicate_of_failed_item.
ResolveDeferred ==
    /\ pc = "deferred"
    /\ idx <= Len(deferred_duplicates)
    /\ LET record    == deferred_duplicates[idx][1]
           cache_key == deferred_duplicates[idx][2]
           payload   == DeferredPayload(cache_key)
           found     == payload # NoneVal
           resp      == _to_response(record,
                            apply_guardrails(record.raw_name, payload), TRUE)
           raises    == found /\ resp \in Exceptions
       IN  /\ outputs' = IF raises THEN outputs
                         ELSE IF found THEN Append(outputs, resp)
                         ELSE Append(outputs, ErrorItem(record, "duplicate_of_failed_item"))
           /\ errors' = IF found THEN errors
                        ELSE Append(errors, <<record.id, "duplicate_of_failed_item">>)
           /\ pc' = IF raises THEN "raised" ELSE "deferred"
           /\ exc' = IF raises THEN resp ELSE exc
           /\ idx' = IF raises THEN idx ELSE idx + 1
    /\ UNCHANGED <<records, job_vars, side_vars, redis_available, cache, start, pending, lookup_by_id,
                   cache_key_by_id, seen_in_batch, deferred_duplicates,
                   payload_by_cache_key, retry_locals, responses, all_errors,
                   llm_calls, probes, validated>>

\* ----------------------------------------------- _process_records, lines 58-62
\* The chunk returns (outputs, errors); they are appended, and the next chunk
\* starts or _process_records returns.
FinishChunk ==
    /\ pc = "deferred"
    /\ idx > Len(deferred_duplicates)
    /\ responses' = responses \o outputs
    /\ all_errors' = all_errors \o errors
    /\ IF start + BatchSize < Len(records)
       THEN /\ pc' = "probe"
            /\ start' = start + BatchSize
            /\ idx' = 1
            /\ outputs' = <<>> /\ errors' = <<>> /\ pending' = <<>>
            /\ lookup_by_id' = <<>> /\ cache_key_by_id' = <<>>
            /\ seen_in_batch' = <<>> /\ deferred_duplicates' = <<>>
            /\ payload_by_cache_key' = <<>>
            /\ successes' = <<>> /\ failures' = <<>>
            /\ retry_queue' = <<>> /\ attempt' = 0
       ELSE /\ pc' = "returned"
            /\ UNCHANGED <<start, idx, chunk_locals, retry_locals>>
    /\ UNCHANGED <<records, job_vars, side_vars, redis_available, cache, exc, llm_calls, probes, validated>>

\* --------------------------------------------- process_job, lines 257-264
\* A slip that fails the job as soon as one record has an error.
FinalStatus_Failed(errors_) == IF errors_ = <<>> THEN "done" ELSE "failed"

\* A slip that never looks at the error list.
FinalStatus_Done(errors_) == "done"

\* Line 258: done when the error list is empty, partial otherwise.
FinalStatus(errors_) == IF errors_ = <<>> THEN "done" ELSE "partial"

\* A slip that reports the job as partial when _process_records raised.
StatusOnException_Partial == "partial"

\* Line 263: the status set when _process_records raised.
StatusOnException == "failed"

\* Lines 257-264: _process_records returned (results, errors) and the final
\* status is stored at line 259; when that raises, the handler of line 261
\* stores failed at line 263 and the exception goes on to the caller.
ProcessReturns(answers) ==
    /\ pc = "returned"
    /\ \E stored_259 \in answers, stored_263 \in answers :
        LET handler == set_job_status(StatusOnException, stored_263,
                           [pc |-> "store_raised", exc |-> StoreError,
                            status |-> StatusOnException],
                           [pc |-> "store_raised", exc |-> StoreError,
                            status |-> job_status])
            after == set_job_status(FinalStatus(all_errors), stored_259,
                         [pc |-> "job_done", exc |-> exc,
                          status |-> FinalStatus(all_errors)],
                         handler)
        IN  /\ pc' = after.pc
            /\ exc' = after.exc
            /\ job_status' = after.status
    /\ UNCHANGED <<records, redis_available, cache, start, idx, chunk_locals,
                   retry_locals, responses, all_errors, llm_calls, probes,
                   validated, success_count, error_count, redelivered, side_vars>>

\* Lines 261-264: _process_records raised; the job is marked and the
\* exception goes on to the caller.
ProcessRaises(answers) ==
    /\ pc = "raised"
    /\ \E stored_263 \in answers :
        LET after == set_job_status(StatusOnException, stored_263,
                         [pc |-> "job_failed", exc |-> exc,
                          status |-> StatusOnException],
                         [pc |-> "store_raised", exc |-> StoreError,
                          status |-> job_status])
        IN  /\ pc' = after.pc
            /\ exc' = after.exc
            /\ job_status' = after.status
    /\ UNCHANGED <<records, redis_available, cache, start, idx, chunk_locals,
                   retry_locals, responses, all_errors, llm_calls, probes,
                   validated, success_count, error_count, redelivered, side_vars>>

\* The relational store takes every update.
StoreUp == {TRUE}

\* The relational store takes an update or fails on it.
StoreUpOrDown == BOOLEAN

RunIngestJob == RunIngest(StoreUp)

ProcessJobReturns == ProcessReturns(StoreUp)

ProcessJobRaises == ProcessRaises(StoreUp)

Next ==
    \/ RunIngestJob
    \/ ProcessJobReturns
    \/ ProcessJobRaises
    \/ ProbeRecord
    \/ AfterProbe
    \/ LLMRaises
    \/ LLMResponds
    \/ AfterLoop
    \/ MergeSuccess
    \/ MergeFailures
    \/ ResolveDeferred
    \/ FinishChunk

Spec == Init /\ [][Next]_vars

\* ------------------------------------- the job of two spellings of one name
\* The most records of a job made of the two spellings.
MaxPairRecords == 2

InitPair == InitOver(PairNames, MaxPairRecords)

SpecPair == InitPair /\ [][Next]_vars

\* ------------------------------------------ the job with a store that may fail
\* The most records of a job in the runs where the store may fail.
MaxStoreRecords == 2

InitStore == Init /\ Len(records) <= MaxStoreRecords

RunIngestJobStore == RunIngest(StoreUpOrDown)

ProcessJobReturnsStore == ProcessReturns(StoreUpOrDown)

ProcessJobRaisesStore == ProcessRaises(StoreUpOrDown)

NextStore ==
    \/ RunIngestJobStore
    \/ ProcessJobReturnsStore
    \/ ProcessJobRaisesStore
    \/ ProbeRecord
    \/ AfterProbe
    \/ LLMRaises
    \/ LLMResponds
    \/ AfterLoop
    \/ MergeSuccess
    \/ MergeFailures
    \/ ResolveDeferred
    \/ FinishChunk

SpecStore == InitStore /\ [][NextStore]_vars

\* ------------------------------------------- apply_guardrails on its own
\* The raw names, canonicals and confidences (in hundredths) of the explored
\* calls of apply_guardrails.
GuardRawNames ==
    { <<"Acme">>,
      <<"Acme", " ", "Facility", " ", "Services">>,
      <<"ACME", ",", " ", "INC", ".">>,
      <<"Beta", " ", "&", " ", "Co">>,
      <<".">> }

GuardCanonicals ==
    { <<>>,
      <<" ">>,
      <<"Acme">>,
      <<"Acme", " ", "Facility">>,
      <<"Acme", " ", "Facility", " ", "Services">>,
      <<"Acme", " ", "Beta", " ", "Cached", " ", "Near">>,
      <<"Completely", " ", "Different", " ", "Brand">>,
      <<".">> }

GuardConfidences == {0, 30, 50, 51, 95, 100}

\* A test calls apply_guardrails(raw_name, payload) directly.
InitGuard ==
    /\ \E raw \in GuardRawNames, canon \in GuardCanonicals, conf \in GuardConfidences :
            guard_input = [raw_name |-> raw, payload |-> PayloadOf(canon, conf)]
    /\ guard_output = NoneVal
    /\ MemoryIdle /\ CleanIdle /\ RaceIdle /\ BatchIdle /\ CallIdle
    /\ records = <<>>
    /\ redis_available = FALSE
    /\ cache = [redis |-> EmptyCache, memory |-> EmptyCache]
    /\ pc = "guard"
    /\ exc = NoneStr
    /\ job_status = "queued"
    /\ success_count = 0
    /\ error_count = 0
    /\ redelivered = FALSE
    /\ start = 0
    /\ idx = 1
    /\ outputs = <<>> /\ errors = <<>> /\ pending = <<>>
    /\ lookup_by_id = <<>> /\ cache_key_by_id = <<>> /\ seen_in_batch = <<>>
    /\ deferred_duplicates = <<>> /\ payload_by_cache_key = <<>>
    /\ successes = <<>> /\ failures = <<>> /\ retry_queue = <<>> /\ attempt = 0
    /\ responses = <<>> /\ all_errors = <<>>
    /\ llm_calls = <<>>
    /\ probes = <<>>
    /\ validated = [i \in 1..MaxRecords |-> 0]

\* The call returns its GuardrailResult.
ApplyGuardrails ==
    /\ pc = "guard"
    /\ guard_output = NoneVal
    /\ guard_output' = apply_guardrails(guard_input.raw_name, guard_input.payload)
    /\ UNCHANGED <<records, redis_available, cache, pc, exc, start, idx,
                   chunk_locals, retry_locals, responses, all_errors, llm_calls,
                   probes, validated, job_vars, call_vars, guard_input, memory_vars,
                   clean_vars, race_vars, batch_vars>>

NextGuard == ApplyGuardrails

SpecGuard == InitGuard /\ [][NextGuard]_vars


\* --------------------------------------- the local cache of cache.py on its own
\* cache.py line 95: the size of _memory_cache above which cache_set sweeps.
MEMORY_SWEEP_THRESHOLD == 1000

\* The most entries _memory_cache holds in the explored runs.
MaxCacheSets == 1002

\* The remote store is down and the local cache is empty.
InitMemory ==
    /\ PipelineIdle
    /\ pc = "memory"
    /\ redis_available = FALSE
    /\ cache = [redis |-> EmptyCache, memory |-> EmptyCache]
    /\ GuardIdle /\ MemoryIdle /\ CleanIdle /\ RaceIdle /\ BatchIdle /\ CallIdle

\* cache_set, lines 80-99, with the remote store unavailable and a key that
\* is not in _memory_cache: the entry is stored with expiry now + TTL_SECONDS
\* (line 92), and when the cache then holds more than 1000 entries the
\* sweep of lines 96-98 deletes the entries with current_time >= exp and no
\* other.
MemoryCacheSet ==
    /\ pc = "memory"
    /\ memory_fresh + memory_expired < MaxCacheSets
    /\ memory_fresh' = memory_fresh + 1
    /\ memory_expired' =
            IF memory_fresh + 1 + memory_expired > MEMORY_SWEEP_THRESHOLD
            THEN 0
            ELSE memory_expired
    /\ UNCHANGED <<records, redis_available, cache, pc, exc, start, idx,
                   chunk_locals, retry_locals, responses, all_errors, llm_calls,
                   probes, validated, job_vars, call_vars, guard_vars, clean_vars,
                   race_vars, batch_vars>>

\* TTL_SECONDS (line 17, one year) go by without a call: every entry stored
\* so far is past its expiry.
TtlElapses ==
    /\ pc = "memory"
    /\ memory_fresh > 0
    /\ memory_expired' = memory_expired + memory_fresh
    /\ memory_fresh' = 0
    /\ UNCHANGED <<records, redis_available, cache, pc, exc, start, idx,
                   chunk_locals, retry_locals, responses, all_errors, llm_calls,
                   probes, validated, job_vars, call_vars, guard_vars, clean_vars,
                   race_vars, batch_vars>>

NextMemory == MemoryCacheSet \/ TtlElapses

SpecMemory == InitMemory /\ [][NextMemory]_vars


\* ------------------------------------------------------ min_clean on its own
\* The longest argument of the explored calls of min_clean, in atoms.
MaxCleanLen == 3

\* What the arguments are made of: a word, a blank, and two of the
\* characters that line 43 strips.
CleanAtoms == {"Acme", " ", ".", "("}

\* A caller passes a string to min_clean.
InitClean ==
    /\ PipelineIdle
    /\ pc = "clean"
    /\ redis_available = FALSE
    /\ cache = [redis |-> EmptyCache, memory |-> EmptyCache]
    /\ \E n \in 0..MaxCleanLen : clean_input \in [1..n -> CleanAtoms]
    /\ clean_output = NoneVal
    /\ GuardIdle /\ MemoryIdle /\ RaceIdle /\ BatchIdle /\ CallIdle

\* min_clean is applied to the argument, and once more to what it returned.
MinClean ==
    /\ pc = "clean"
    /\ clean_output = NoneVal
    /\ clean_output' = [once  |-> min_clean(clean_input),
                        twice |-> min_clean(min_clean(clean_input))]
    /\ UNCHANGED <<records, redis_available, cache, pc, exc, start, idx,
                   chunk_locals, retry_locals, responses, all_errors, llm_calls,
                   probes, validated, job_vars, call_vars, guard_vars, memory_vars,
                   clean_input, race_vars, batch_vars>>

NextClean == MinClean

SpecClean == InitClean /\ [][NextClean]_vars


\* ------------------------------------- concurrent requests for the same key
\* process_online (lines 46-48) runs _process_records in an executor thread,
\* so several requests go through _process_chunk at once.  Each request
\* explored here holds one record, and all the records have the same key.
RaceRequests == 3

RaceName == <<"Acme">>

RaceKey == exact_cache_key(RaceName)

\* What the classifier may answer for the name, request by request: it is an
\* external model and answers the same prompt in more than one way.
RacePayloads ==
    {p \in {ValidPayload, PayloadOf(<<"Acme", " ", "Co">>, 90)} : validate(p)}

InitRace ==
    /\ PipelineIdle
    /\ pc = "race"
    /\ redis_available \in BOOLEAN
    /\ cache = [redis |-> EmptyCache, memory |-> EmptyCache]
    /\ race_pc = [r \in 1..RaceRequests |-> "probe"]
    /\ race_payload = [r \in 1..RaceRequests |-> NoneVal]
    /\ GuardIdle /\ MemoryIdle /\ CleanIdle /\ BatchIdle /\ CallIdle

\* Lines 89-95: the request looks its key up in the exact cache; on a hit the
\* classifier is not called and nothing is written.
RaceProbe(r) ==
    /\ race_pc[r] = "probe"
    /\ race_pc' = [race_pc EXCEPT ![r] =
            IF cache_get(cache, redis_available, RaceKey) # NoneVal
            THEN "hit" ELSE "call"]
    /\ UNCHANGED <<records, redis_available, cache, pc, exc, start, idx,
                   chunk_locals, retry_locals, responses, all_errors, llm_calls,
                   probes, validated, job_vars, call_vars, guard_vars, memory_vars,
                   clean_vars, race_payload, batch_vars>>

\* Lines 124-126: the classifier answers the request with a payload that
\* passes the schema, or with none.
RaceClassify(r) ==
    /\ race_pc[r] = "call"
    /\ \E p \in RacePayloads \cup {NoneVal} :
        /\ race_payload' = [race_payload EXCEPT ![r] = p]
        /\ race_pc' = [race_pc EXCEPT ![r] = IF p = NoneVal THEN "failed" ELSE "set"]
    /\ UNCHANGED <<records, redis_available, cache, pc, exc, start, idx,
                   chunk_locals, retry_locals, responses, all_errors, llm_calls,
                   probes, validated, job_vars, call_vars, guard_vars, memory_vars,
                   clean_vars, batch_vars>>

\* Line 130: cache_set(cache_key_by_id[item_id], payload).
RaceCacheSet(r) ==
    /\ race_pc[r] = "set"
    /\ cache' = cache_set(cache, redis_available, RaceKey, race_payload[r])
    /\ race_pc' = [race_pc EXCEPT ![r] = "written"]
    /\ UNCHANGED <<records, redis_available, pc, exc, start, idx,
                   chunk_locals, retry_locals, responses, all_errors, llm_calls,
                   probes, validated, job_vars, call_vars, guard_vars, memory_vars,
                   clean_vars, race_payload, batch_vars>>

NextRace ==
    \E r \in 1..RaceRequests : RaceProbe(r) \/ RaceClassify(r) \/ RaceCacheSet(r)

SpecRace == InitRace /\ [][NextRace]_vars


\* ------------------------------------- normalize_batch_gpt4o_mini on its own
\* llm_client.py line 132: up to this many items are processed one by one.
SMALL_BATCH == 5

\* Line 139: max_workers = min(5, len(items)).
MAX_WORKERS == 5

\* The most items of the explored calls.
MaxBatchItems == 6

\* The items of a call: the dicts _call_llm_with_retry builds at lines 183-186.
BatchItem(i) == [id |-> i, raw_name |-> <<"Acme">>, retry_suffix |-> NoneStr]

\* What _process_single_item does for one item: it returns a row with a
\* payload, or raises (None).
ItemOutcomes == {ValidPayload, NoneVal}

\* The row of an item: lines 93-98 when its call returned, lines 158-163
\* when it raised.
BatchRow(item, payload) ==
    [id |-> item.id, raw_name |-> item.raw_name, payload |-> payload]

InitBatch ==
    /\ PipelineIdle
    /\ pc = "batch"
    /\ redis_available = FALSE
    /\ cache = [redis |-> EmptyCache, memory |-> EmptyCache]
    /\ \E n \in 0..MaxBatchItems :
        /\ batch_items = [i \in 1..n |-> BatchItem(i)]
        /\ futures = [i \in 1..n |->
                        [state |-> "pending", payload |-> NoneVal, early |-> FALSE]]
        /\ results = [i \in 1..n |-> NoneVal]
    /\ batch_return = <<>>
    /\ GuardIdle /\ MemoryIdle /\ CleanIdle /\ RaceIdle /\ CallIdle

\* The first item whose call raises, or 0.
FirstRaise(outcomes) ==
    LET raising == {i \in DOMAIN outcomes : outcomes[i] = NoneVal}
    IN  IF raising = {} THEN 0
        ELSE CHOOSE i \in raising : \A j \in raising : i <= j

\* Lines 132-136: up to five items are processed in order; an exception of
\* _process_single_item ends the call.
SequentialCall ==
    /\ pc = "batch"
    /\ Len(batch_items) <= SMALL_BATCH
    /\ \E outcomes \in [1..Len(batch_items) -> ItemOutcomes] :
        LET first == FirstRaise(outcomes)
        IN  /\ futures' = [i \in 1..Len(batch_items) |->
                    IF first = 0 \/ i <= first
                    THEN [state |-> "collected", payload |-> outcomes[i],
                          early |-> FALSE]
                    ELSE futures[i]]
            /\ results' = [i \in 1..Len(batch_items) |->
                    IF first = 0 \/ i < first
                    THEN BatchRow(batch_items[i], outcomes[i]) ELSE NoneVal]
            /\ batch_return' = IF first = 0
                    THEN [i \in 1..Len(batch_items) |->
                            BatchRow(batch_items[i], outcomes[i])]
                    ELSE batch_return
            /\ pc' = IF first = 0 THEN "batch_returned" ELSE "batch_raised"
            /\ exc' = IF first = 0 THEN exc ELSE "LLMCallError"
    /\ UNCHANGED <<records, redis_available, cache, start, idx,
                   chunk_locals, retry_locals, responses, all_errors, llm_calls,
                   probes, validated, job_vars, call_vars, guard_vars, memory_vars,
                   clean_vars, race_vars, batch_items>>

Running == {i \in 1..Len(futures) : futures[i].state = "running"}

\* Lines 142-147: the futures are submitted in input order; the pool runs
\* at most MAX_WORKERS of them at a time.
StartFuture(i) ==
    /\ pc = "batch"
    /\ Len(batch_items) > SMALL_BATCH
    /\ i \in 1..Len(futures)
    /\ futures[i].state = "pending"
    /\ \A j \in 1..(i - 1) : futures[j].state # "pending"
    /\ Cardinality(Running) < Min(MAX_WORKERS, Len(batch_items))
    /\ futures' = [futures EXCEPT ![i].state = "running"]
    /\ UNCHANGED <<records, redis_available, cache, pc, exc, start, idx,
                   chunk_locals, retry_locals, responses, all_errors, llm_calls,
                   probes, validated, job_vars, call_vars, guard_vars, memory_vars,
                   clean_vars, race_vars, batch_items, results, batch_return>>

\* A slip that collects the rows in the order the futures complete.
StoreResult_Appended(results_, index, row) ==
    LET free == {k \in 1..Len(results_) : results_[k] = NoneVal}
    IN  [results_ EXCEPT ![CHOOSE k \in free : \A m \in free : k <= m] = row]

\* Lines 154 and 158: results[index] = the row.
StoreResult(results_, index, row) == [results_ EXCEPT ![index] = row]

\* Lines 150-163: as_completed hands over a finished future, whichever
\* finishes next; its row, or the row without payload when it raised, goes
\* to the slot of its index.
CollectFuture(i) ==
    /\ pc = "batch"
    /\ i \in Running
    /\ \E payload \in ItemOutcomes :
        /\ futures' = [futures EXCEPT ![i] =
                [state |-> "collected", payload |-> payload,
                 early |-> \E j \in 1..(i - 1) : futures[j].state # "collected"]]
        /\ results' = StoreResult(results, i, BatchRow(batch_items[i], payload))
    /\ UNCHANGED <<records, redis_available, cache, pc, exc, start, idx,
                   chunk_locals, retry_locals, responses, all_errors, llm_calls,
                   probes, validated, job_vars, call_vars, guard_vars, memory_vars,
                   clean_vars, race_vars, batch_items, batch_return>>

\* [r for r in results_ if r is not None]
RECURSIVE NotNone(_)
NotNone(results_) ==
    IF results_ = <<>> THEN <<>>
    ELSE (IF Head(results_) = NoneVal THEN <<>> ELSE <<Head(results_)>>)
         \o NotNone(Tail(results_))

\* Line 165: every future is collected, the rows are returned.
BatchReturn ==
    /\ pc = "batch"
    /\ Len(batch_items) > SMALL_BATCH
    /\ \A i \in 1..Len(futures) : futures[i].state = "collected"
    /\ batch_return' = NotNone(results)
    /\ pc' = "batch_returned"
    /\ UNCHANGED <<records, redis_available, cache, exc, start, idx,
                   chunk_locals, retry_locals, responses, all_errors, llm_calls,
                   probes, validated, job_vars, call_vars, guard_vars, memory_vars,
                   clean_vars, race_vars, batch_items, futures, results>>

NextBatch ==
    \/ SequentialCall
    \/ \E i \in 1..MaxBatchItems : StartFuture(i) \/ CollectFuture(i)
    \/ BatchReturn

SpecBatch == InitBatch /\ [][NextBatch]_vars


\* ------------------------------------------- cache_set and cache_get on their own
\* The keys and the payloads of the explored calls.
CallKeys == {exact_cache_key(r) : r \in RawNames}

CallPayloads == {ValidPayload, CachedPayload}

\* The first ping has found the remote store reachable or not; both caches
\* are empty.
InitCalls ==
    /\ PipelineIdle
    /\ pc = "cache_calls"
    /\ redis_available \in BOOLEAN
    /\ cache = [redis |-> EmptyCache, memory |-> EmptyCache]
    /\ cache_written = [k \in CallKeys |-> NoneVal]
    /\ cache_read = NoneVal
    /\ GuardIdle /\ MemoryIdle /\ CleanIdle /\ RaceIdle /\ BatchIdle

\* cache_set(key, value); the remote store, if it is in use, may raise on
\* this one call.
CacheSetCall ==
    /\ pc = "cache_calls"
    /\ \E key \in CallKeys, value \in CallPayloads, redis_error \in BOOLEAN :
        /\ redis_error => redis_available
        /\ cache' = cache_set_call(cache, redis_available, redis_error, key, value)
        /\ cache_written' = [cache_written EXCEPT ![key] = value]
    /\ cache_read' = NoneVal
    /\ UNCHANGED <<records, redis_available, pc, exc, start, idx,
                   chunk_locals, retry_locals, responses, all_errors, llm_calls,
                   probes, validated, job_vars, guard_vars, memory_vars,
                   clean_vars, race_vars, batch_vars>>

\* cache_get(key), within the TTL of every entry; the remote store, if it
\* is in use, may raise on this one call.
CacheGetCall ==
    /\ pc = "cache_calls"
    /\ \E key \in CallKeys, redis_error \in BOOLEAN :
        /\ redis_error => redis_available
        /\ cache_read' = [key |-> key,
                          value |-> cache_get_call(cache, redis_available,
                                                   redis_error, key)]
    /\ UNCHANGED <<records, redis_available, cache, pc, exc, start, idx,
                   chunk_locals, retry_locals, responses, all_errors, llm_calls,
                   probes, validated, job_vars, guard_vars, memory_vars,
                   clean_vars, race_vars, batch_vars, cache_written>>

NextCalls == CacheSetCall \/ CacheGetCall

SpecCalls == InitCalls /\ [][NextCalls]_vars


\* ------------------------------------------------- the job under a fair worker
\* The queue hands the queued job to a worker.  A second delivery of a job
\* whose run_ingest_job has ended is possible, but nothing in the code makes
\* it happen.
FirstDelivery == pc = "queued" /\ RunIngestJob

\* The loop over the chunk's records goes on to the next record or ends in
\* an exception: the steps of ProbeRecord, which is enabled whenever the
\* loop has a record left.
ProbeAdvances ==
    /\ pc = "probe"
    /\ idx <= Len(Chunk)
    /\ pc' \in {"probe", "raised"}
    /\ idx' \in {idx, idx + 1}

\* The classifier call comes to an end: it answers or it raises.
LLMCallEnds == LLMRaises \/ LLMResponds

\* The worker, once it has the job, runs on to the end of run_ingest_job:
\* every loop of the code is over a finite list and every call returns or
\* raises.
WorkerRuns ==
    /\ WF_vars(FirstDelivery)
    /\ WF_<<pc, idx>>(ProbeAdvances) /\ WF_vars(AfterProbe)
    /\ WF_vars(LLMCallEnds) /\ WF_vars(AfterLoop)
    /\ WF_vars(MergeSuccess) /\ WF_vars(MergeFailures)
    /\ WF_vars(ResolveDeferred) /\ WF_vars(FinishChunk)
    /\ WF_vars(ProcessJobReturns) /\ WF_vars(ProcessJobRaises)

SpecLive == InitStore /\ [][Next]_vars /\ WorkerRuns


\* ------------------------------------- the chunk next to another request
\* Line 130 in another worker: while this request is in _process_chunk, a
\* request that classified the same name stores its payload under a key
\* that the shared exact cache does not hold yet.
ConcurrentCacheSet ==
    /\ pc \in {"probe", "llm", "broke", "merge", "deferred"}
    /\ \E i \in 1..Len(records) :
        LET key == exact_cache_key(records[i].raw_name)
        IN  /\ cache_get(cache, redis_available, key) = NoneVal
            /\ cache' = cache_set(cache, redis_available, key, CachedPayload)
    /\ UNCHANGED <<records, redis_available, pc, exc, start, idx,
                   chunk_locals, retry_locals, responses, all_errors, llm_calls,
                   probes, validated, job_vars, side_vars>>

NextShared == Next \/ ConcurrentCacheSet

SpecShared == InitStore /\ [][NextShared]_vars


\* ------------------------------------------------------------------ claims
HasResult(item) == item.result # NoneVal

HasError(item) == item.error # NoneStr

\* The chunk's classifier calls so far.
ChunkCalls == SelectSeq(llm_calls, LAMBDA c : c.start = start)

\* _process_records has returned or has raised.
Done == pc \in {"returned", "raised"}

\* _process_chunk is at its return statement.
ChunkEnd == pc = "deferred" /\ idx > Len(deferred_duplicates)

\* _call_llm_with_retry has returned to the current chunk.
AfterRetry == pc \in {"merge", "deferred"} /\ ChunkCalls # <<>>

\* The positions of the returned items that carry the id.
ItemsOf(id) == {i \in 1..Len(responses) : responses[i].id = id}

\* The positions of the id in the request list of a classifier call.
SentAt(call, id) == {k \in 1..Len(call.items) : call.items[k].id = id}

\* The classifier calls whose request list holds the id.
CallsWith(id) == {c \in 1..Len(llm_calls) : SentAt(llm_calls[c], id) # {}}

\* The error list holds an entry for the id.
ErrorListed(id) == \E e \in 1..Len(all_errors) : all_errors[e][1] = id

OutputIds == [i \in 1..Len(outputs) |-> outputs[i].id]

InputIds == [i \in 1..Len(Chunk) |-> Chunk[i].id]

\* The ids of the chunk's records that hit the exact cache or the index.
HitIds ==
    LET hits == SelectSeq(probes,
                    LAMBDA p : p.start = start /\ p.tier \in {"hit", "near"})
    IN  [i \in 1..Len(hits) |-> hits[i].id]

DupIds == [i \in 1..Len(deferred_duplicates) |-> deferred_duplicates[i][1].id]

\* C1: every NormalizeResponseItem that _process_chunk has built, and every one
\* that _process_records returns, has exactly one of result / error set.
C1_ExactlyOneOfResultError ==
    /\ \A i \in 1..Len(outputs) : HasResult(outputs[i]) # HasError(outputs[i])
    /\ \A i \in 1..Len(responses) : HasResult(responses[i]) # HasError(responses[i])

\* A returned request with a classifier failure and an in-batch duplicate.
C1_Witness ==
    /\ pc = "returned"
    /\ \E i, j \in 1..Len(responses) :
        /\ responses[i].error = "missing_response"
        /\ responses[j].error = "duplicate_of_failed_item"

\* C4: when _call_llm_with_retry returns, every PendingItem it was given is in
\* exactly one of successes and failures.
C4_ExactlyOneOutcome ==
    pc = "merge" =>
        \A i \in 1..Len(pending) :
            DictHas(successes, pending[i].id) # DictHas(failures, pending[i].id)

\* Two attempts were made, one item succeeded and another failed.
C4_Witness ==
    /\ pc = "merge"
    /\ Len(ChunkCalls) = 2
    /\ successes # <<>>
    /\ failures # <<>>


\* C2: _process_records returns, and what it returns holds exactly one response
\* item per input record, whatever the classifier did.
C2_OneItemPerRecord ==
    Done =>
        /\ pc = "returned"
        /\ Len(responses) = Len(records)
        /\ \A r \in 1..Len(records) : Cardinality(ItemsOf(records[r].id)) = 1

\* C3 as stated: at the return of _process_chunk, output position i carries the
\* id of the chunk's input record i.
C3_OutputInInputOrder == ChunkEnd => OutputIds = InputIds

\* C3 amended: at the return of _process_chunk the items are grouped: the hits
\* in input order, then the fresh successes, then the failed records in the
\* order they were first marked failed, then the in-batch duplicates.
C3_OutputInGroupOrder ==
    ChunkEnd =>
        OutputIds = HitIds \o DictKeys(successes) \o DictKeys(failures) \o DupIds

\* A chunk returns one item per record, and not in the order of its records.
C3_Witness ==
    /\ ChunkEnd
    /\ Len(outputs) = Len(Chunk)
    /\ OutputIds # InputIds

\* C5: a record that hit the exact cache is in no classifier call, and once the
\* request is over its response item has cached = true, a result derived from
\* the cached payload and no error.
C5_CacheHitBypassesClassifier ==
    \A p \in 1..Len(probes) :
        probes[p].tier = "hit" =>
            /\ CallsWith(probes[p].id) = {}
            /\ Done =>
                \E i \in ItemsOf(probes[p].id) :
                    /\ responses[i].cached
                    /\ HasResult(responses[i])
                    /\ ~HasError(responses[i])
                    /\ responses[i].result.canonical = probes[p].payload.canonical

\* The classifier calls of the chunk at offset st that hold an item of the key.
CallsForKey(st, key) ==
    {c \in 1..Len(llm_calls) :
        /\ llm_calls[c].start = st
        /\ llm_calls[c].attempt = 0
        /\ Cardinality({k \in 1..Len(llm_calls[c].items) :
                exact_cache_key(llm_calls[c].items[k].raw_name) = key}) = 1}

\* C6: a later occurrence of a cache key within a chunk is deferred and never
\* sent to the classifier, a key that missed the exact cache and the index is
\* sent as exactly one item, and a deferred record that gets a result is
\* returned with cached = true.
C6_OneClassifierItemPerKey ==
    \A p \in 1..Len(probes) :
        LET record == records[probes[p].id]
            key    == exact_cache_key(record.raw_name)
            first  == \A q \in 1..(p - 1) :
                        probes[q].start = probes[p].start =>
                            exact_cache_key(records[probes[q].id].raw_name) # key
        IN  /\ (probes[p].tier = "dup") = ~first
            /\ probes[p].tier = "dup" =>
                /\ CallsWith(record.id) = {}
                /\ \A i \in ItemsOf(record.id) :
                        HasResult(responses[i]) => responses[i].cached
            /\ (probes[p].tier = "miss" /\ Done) =>
                    CallsForKey(probes[p].start, key) # {}

\* The item was sent twice in its chunk: its first payload failed the schema,
\* its second passed.
RetriedOk(id) ==
    \E c1, c2 \in CallsWith(id) :
        /\ llm_calls[c1].attempt = 0 /\ ~llm_calls[c1].raised
        /\ llm_calls[c2].attempt = 1 /\ ~llm_calls[c2].raised
        /\ \A k \in SentAt(llm_calls[c1], id) : llm_calls[c1].kinds[k] = "invalid"
        /\ \A k \in SentAt(llm_calls[c2], id) : llm_calls[c2].kinds[k] = "valid"

\* C7: an item whose first payload is schema-invalid and whose second is valid
\* was in exactly two classifier calls, and once the request is over its
\* response carries the result of the second payload and no error, and the
\* error list has no entry for it.
C7_RetryThenSuccess ==
    \A r \in 1..Len(records) :
        RetriedOk(records[r].id) =>
            /\ Cardinality(CallsWith(records[r].id)) = 2
            /\ Done =>
                /\ ~ErrorListed(records[r].id)
                /\ \E i \in ItemsOf(records[r].id) :
                    /\ HasResult(responses[i])
                    /\ ~HasError(responses[i])
                    /\ responses[i].result.canonical = ValidPayload.canonical

\* The record of the same chunk that first carried the key of the record.
FirstOccurrence(p) ==
    CHOOSE q \in 1..p :
        /\ probes[q].start = probes[p].start
        /\ probes[q].tier # "dup"
        /\ exact_cache_key(records[probes[q].id].raw_name)
                = exact_cache_key(records[probes[p].id].raw_name)

\* C8: once the request is over, every deferred in-batch duplicate has a
\* response item: a result equal to its first occurrence's result when that
\* one got a result, and the error duplicate_of_failed_item exactly when the
\* first occurrence ended in an error.
C8_DuplicateFollowsFirst ==
    Done =>
        \A p \in 1..Len(probes) :
            probes[p].tier = "dup" =>
                \E i \in ItemsOf(probes[p].id) :
                    \E j \in ItemsOf(probes[FirstOccurrence(p)].id) :
                        /\ HasResult(responses[j]) =>
                            /\ HasResult(responses[i])
                            /\ responses[i].result = responses[j].result
                        /\ (responses[i].error = "duplicate_of_failed_item")
                                = HasError(responses[j])

\* C9: after a classifier call that raised, no further call is made for the
\* chunk, and when _call_llm_with_retry has returned every item of that call
\* is in failures with llm_call_failed.
C9_RaisedCallFailsItems ==
    \A c \in 1..Len(llm_calls) :
        llm_calls[c].raised =>
            /\ \A d \in (c + 1)..Len(llm_calls) : llm_calls[d].start # llm_calls[c].start
            /\ (AfterRetry /\ llm_calls[c].start = start) =>
                \A k \in 1..Len(llm_calls[c].items) :
                    /\ DictHas(failures, llm_calls[c].items[k].id)
                    /\ DictGet(failures, llm_calls[c].items[k].id) = "llm_call_failed"

\* The error kind _call_llm_with_retry returned for the id, or None.
FailureOf(id) == IF DictHas(failures, id) THEN DictGet(failures, id) ELSE NoneStr

\* C10: when _call_llm_with_retry has returned, an item still schema-invalid
\* on the second attempt has invalid_output, an item without a row has
\* missing_response, and every item with invalid_output was validated twice.
C10_InvalidOutputAfterTwoValidations ==
    AfterRetry =>
        /\ \A c \in 1..Len(ChunkCalls) : \A k \in 1..Len(ChunkCalls[c].kinds) :
            /\ (ChunkCalls[c].attempt = 1 /\ ChunkCalls[c].kinds[k] = "invalid")
                    => FailureOf(ChunkCalls[c].items[k].id) = "invalid_output"
            /\ ChunkCalls[c].kinds[k] = "missing"
                    => FailureOf(ChunkCalls[c].items[k].id) = "missing_response"
        /\ \A i \in 1..Len(failures) :
            failures[i][2] = "invalid_output" => validated[failures[i][1]] >= 2


\* The token sets of the raw name and of the canonical of a stand-alone call.
GuardTokensRaw == SeqRange(tokenize(guard_input.raw_name))

GuardTokensCanonical == SeqRange(tokenize(guard_output.canonical))

\* The Jaccard overlap of the two token sets is below 0.3 (0 when one is empty).
JaccardBelow03 ==
    \/ GuardTokensRaw = {}
    \/ GuardTokensCanonical = {}
    \/ 10 * Cardinality(GuardTokensRaw \cap GuardTokensCanonical)
            < 3 * Cardinality(GuardTokensRaw \cup GuardTokensCanonical)

\* The confidence apply_guardrails starts from: 0 for an empty canonical.
GuardConfidenceIn ==
    IF Strip(guard_input.payload.canonical, Whitespace) = <<>> THEN 0
    ELSE guard_input.payload.confidence

\* C18: when the token overlap of raw_name and canonical is below 0.3, the
\* result has the flag low_token_overlap and its confidence is the smaller of
\* 0.5 and the confidence it started from; for a non-empty canonical with an
\* overlap of at least 0.3 the flag is absent and the confidence is the payload's.
C18_LowOverlapCapsConfidence ==
    guard_output # NoneVal =>
        IF JaccardBelow03
        THEN /\ "low_token_overlap" \in SeqRange(guard_output.flags)
             /\ guard_output.confidence = Min(GuardConfidenceIn, 50)
        ELSE /\ "low_token_overlap" \notin SeqRange(guard_output.flags)
             /\ guard_output.confidence = GuardConfidenceIn

\* The case of test_guardrail_low_overlap: 0.95 comes out as 0.5, flagged.
C18_Witness ==
    /\ guard_input # NoneVal
    /\ guard_input.raw_name = <<"Acme", " ", "Facility", " ", "Services">>
    /\ guard_input.payload.canonical = <<"Completely", " ", "Different", " ", "Brand">>
    /\ guard_input.payload.confidence = 95
    /\ guard_output # NoneVal
    /\ guard_output.confidence = 50
    /\ guard_output.flags = <<"low_token_overlap">>

\* The record of probe p is the first of its chunk with its cache key.
\* What it was resolved to: the payload of its hit, the payload of its valid
\* row, or None.
FirstPayload(p) ==
    IF probes[p].tier \in {"hit", "near"} THEN probes[p].payload
    ELSE IF \E c \in CallsWith(probes[p].id) :
                \E k \in SentAt(llm_calls[c], probes[p].id) :
                    ~llm_calls[c].raised /\ llm_calls[c].kinds[k] = "valid"
    THEN ValidPayload
    ELSE NoneVal

\* The payload the record of probe p was resolved to, None if it failed.
PayloadFor(p) ==
    IF probes[p].tier = "dup" THEN FirstPayload(FirstOccurrence(p))
    ELSE FirstPayload(p)

InRaisedCall(id) == \E c \in CallsWith(id) : llm_calls[c].raised

\* The classifier answered the item with a row that has no payload.
HadNoPayload(id) ==
    \E c \in CallsWith(id) : \E k \in SentAt(llm_calls[c], id) :
        ~llm_calls[c].raised /\ llm_calls[c].kinds[k] = "no_payload"

\* C12: when a classifier call raised in some chunk, _process_records still
\* returns an item for every record of every chunk, and an item outside the
\* call that raised carries llm_call_failed or invalid_output only for its
\* own rows.
C12_RaisedCallFailsOnlyItsChunk ==
    (Done /\ \E c \in 1..Len(llm_calls) : llm_calls[c].raised) =>
        /\ pc = "returned"
        /\ \A r \in 1..Len(records) :
            /\ ItemsOf(records[r].id) # {}
            /\ \A i \in ItemsOf(records[r].id) :
                ~InRaisedCall(records[r].id) =>
                    /\ responses[i].error = "llm_call_failed"
                            => HadNoPayload(records[r].id)
                    /\ responses[i].error = "invalid_output"
                            => validated[records[r].id] = 2

\* C13: when process_job has set the final status after _process_records
\* returned, the status is done exactly when the error list is empty, and it
\* is never failed.
C13_DoneIffNoErrors ==
    pc = "job_done" =>
        /\ job_status \in {"done", "partial"}
        /\ (job_status = "done") = (all_errors = <<>>)

\* A job ends after per-record failures, one of them a failed duplicate.
C13_Witness ==
    /\ pc = "job_done"
    /\ job_status = "partial"
    /\ \E e \in 1..Len(all_errors) : all_errors[e][2] = "duplicate_of_failed_item"
    /\ \E e \in 1..Len(all_errors) : all_errors[e][2] = "invalid_output"

\* C14 as stated: the final status is partial exactly when the run produced
\* at least one per-record error and at least one successful record.
C14_PartialIffErrorAndSuccess ==
    pc = "job_done" =>
        (job_status = "partial") =
            /\ \E i \in 1..Len(responses) : HasError(responses[i])
            /\ \E i \in 1..Len(responses) : HasResult(responses[i])

\* C14 amended: the final status is partial exactly when some record ended in
\* an error, whether or not any record succeeded.
C14_PartialIffSomeError ==
    pc = "job_done" =>
        (job_status = "partial") =
            (\E i \in 1..Len(responses) : HasError(responses[i]))

\* A job is partial although none of its records succeeded.
C14_Witness ==
    /\ pc = "job_done"
    /\ job_status = "partial"
    /\ responses # <<>>
    /\ \A i \in 1..Len(responses) : ~HasResult(responses[i])

\* C15: when process_job has finished, success_count is the number of results
\* and error_count the number of errors of the run.
C15_CountersMatchOutcome ==
    pc = "job_done" =>
        /\ success_count
            = Cardinality({i \in 1..Len(responses) : HasResult(responses[i])})
        /\ error_count = Len(all_errors)

\* C16: when _process_records raised inside process_job the job is failed and
\* the exception is passed on, and from then on no step changes
\* success_count or error_count.
C16_RaiseFailsJob ==
    /\ [](pc = "job_failed" => (job_status = "failed" /\ exc \in Exceptions))
    /\ [][pc = "job_failed" =>
            (success_count' = success_count /\ error_count' = error_count)]_vars

\* process_job has marked the job failed after the AttributeError.
C16_Witness ==
    /\ pc = "job_failed"
    /\ job_status = "failed"
    /\ exc = AttributeError

\* C17: the status only moves from queued to running and from running to done,
\* partial or failed, and a job that is done, partial or failed stays so.
C17_StatusMovesForward ==
    [][/\ job_status = "queued" => job_status' \in {"queued", "running"}
       /\ job_status = "running"
            => job_status' \in {"running", "done", "partial", "failed"}
       /\ job_status \in {"done", "partial", "failed"} => job_status' = job_status
      ]_vars

\* The confidence apply_guardrails gives for the payload of the record.
GuardConfidence(id, payload) ==
    apply_guardrails(records[id].raw_name, payload).confidence

\* C19: every payload that reached apply_guardrails, from the exact cache, the
\* near-duplicate index or the classifier, gave a confidence within [0, 1].
C19_ConfidenceInUnitInterval ==
    /\ \A p \in 1..Len(probes) :
        probes[p].payload # NoneVal =>
            GuardConfidence(probes[p].id, probes[p].payload) \in 0..100
    /\ pc = "merge" =>
        \A i \in 1..Len(successes) :
            GuardConfidence(successes[i][1], successes[i][2]) \in 0..100

\* C20: once _process_records is over, it has returned, and every record
\* resolved from the exact cache or by a valid classifier row has a result
\* whose canonical, canonical_with_article and article_policy are those of
\* the payload.
C20_ResultEqualsPayload ==
    Done =>
        \A p \in 1..Len(probes) :
            (probes[p].tier \in {"hit", "miss"} /\ FirstPayload(p) # NoneVal) =>
                /\ pc = "returned"
                /\ \E i \in ItemsOf(probes[p].id) :
                    /\ HasResult(responses[i])
                    /\ responses[i].result.canonical = FirstPayload(p).canonical
                    /\ responses[i].result.canonical_with_article
                            = FirstPayload(p).canonical_with_article
                    /\ responses[i].result.article_policy
                            = FirstPayload(p).article_policy

\* The relational store failed during a job-status update.
StoreFailed == exc = StoreError

\* C21: a failure of the relational store during a job-status update is never
\* raised to the caller of process_job or run_ingest_job: no run ends with
\* the store's exception.
C21_StoreFailureNotRaised ==
    /\ pc # "store_raised"
    /\ ~StoreFailed

\* C22: the local fallback cache is bounded: whatever cache_set calls with
\* distinct keys are made while the remote store is unavailable, once a call
\* has returned the cache holds no more entries than the sweep threshold.
C22_MemoryCacheBounded ==
    memory_fresh + memory_expired <= MEMORY_SWEEP_THRESHOLD

\* C23: min_clean is idempotent: applied to its own result it returns that
\* result.
C23_MinCleanIdempotent ==
    clean_output # NoneVal => clean_output.twice = clean_output.once

\* Every concurrent request is through with its key.
RaceOver == \A r \in 1..RaceRequests : race_pc[r] \in {"hit", "failed", "written"}

\* C24: concurrent requests that resolve the same key write the same payload
\* to the exact cache: when all of them are through, the entry is what each
\* request that wrote has written, whatever the order of their steps.
C24_WritesAgree ==
    (pc = "race" /\ RaceOver) =>
        \A r \in 1..RaceRequests :
            race_pc[r] = "written" =>
                cache_get(cache, redis_available, RaceKey) = race_payload[r]

\* C25: a call of normalize_batch_gpt4o_mini with more than five items
\* returns one row per item, in input order, each with the id of its item
\* and the payload that item's call gave, None when it raised, in whatever
\* order the calls completed.
C25_OneRowPerItemInOrder ==
    (pc = "batch_returned" /\ Len(batch_items) > SMALL_BATCH) =>
        /\ Len(batch_return) = Len(batch_items)
        /\ \A i \in 1..Len(batch_items) :
            /\ i \in DOMAIN batch_return
            /\ batch_return[i].id = batch_items[i].id
            /\ batch_return[i].payload = futures[i].payload

\* A call of six items has returned; a later item completed before an
\* earlier one, one call raised and one gave a payload.
C25_Witness ==
    /\ pc = "batch_returned"
    /\ Len(batch_items) > SMALL_BATCH
    /\ \E i \in 1..Len(futures) : futures[i].early
    /\ \E i \in 1..Len(futures) : futures[i].payload = NoneVal
    /\ \E i \in 1..Len(futures) : futures[i].payload = ValidPayload

\* The record itself was sent to the classifier in this request.
Sent(id) == CallsWith(id) # {}

\* The items built so far: those of the current chunk and those returned.
BuiltItems == outputs \o responses

\* C26 as stated: in every response item, cached is true exactly when the
\* record was not sent to the classifier, and false exactly when it was.
C26_CachedIffBypassed ==
    \A i \in 1..Len(BuiltItems) :
        BuiltItems[i].cached = ~Sent(BuiltItems[i].id)

\* C26 amended: a record that was sent to the classifier has cached false, an
\* item with cached true is a result of a record that was not sent, every
\* error item has cached false, and the items with cached false whose record
\* was not sent are the duplicate_of_failed_item errors of in-batch duplicates.
C26_CachedOnlyOnBypassedResult ==
    \A i \in 1..Len(BuiltItems) :
        /\ Sent(BuiltItems[i].id) => ~BuiltItems[i].cached
        /\ BuiltItems[i].cached => (HasResult(BuiltItems[i]) /\ ~Sent(BuiltItems[i].id))
        /\ HasError(BuiltItems[i]) => ~BuiltItems[i].cached
        /\ (~BuiltItems[i].cached /\ ~Sent(BuiltItems[i].id))
                => BuiltItems[i].error = "duplicate_of_failed_item"

\* _process_records has returned the item of an in-batch duplicate whose first
\* occurrence failed: cached is false although the record was never sent; the
\* item of the first occurrence, which was sent, is there too.
C26_Witness ==
    /\ pc = "returned"
    /\ \E i \in 1..Len(responses) :
        /\ responses[i].error = "duplicate_of_failed_item"
        /\ ~responses[i].cached
        /\ ~Sent(responses[i].id)
    /\ \E i \in 1..Len(responses) :
        /\ Sent(responses[i].id)
        /\ ~responses[i].cached

\* The classifier calls made for the chunk at offset st.
CallsOfChunk(st) == {c \in 1..Len(llm_calls) : llm_calls[c].start = st}

\* C27: _call_llm_with_retry ends after at most two classifier calls per
\* chunk: the attempt counter never passes 2, at 2 the loop is over, no chunk
\* has more than two calls and no item is in more than two of them or twice
\* in one.
C27_AtMostTwoCalls ==
    /\ attempt \in 0..2
    /\ (pc = "llm" /\ attempt = 2) => LoopDone
    /\ \A c \in 1..Len(llm_calls) :
        /\ Cardinality(CallsOfChunk(llm_calls[c].start)) <= 2
        /\ \A k \in 1..Len(llm_calls[c].items) :
            /\ Cardinality(CallsWith(llm_calls[c].items[k].id)) <= 2
            /\ Cardinality(SentAt(llm_calls[c], llm_calls[c].items[k].id)) = 1

\* _call_llm_with_retry has returned after two calls, and an item was in both.
C27_Witness ==
    /\ AfterRetry
    /\ Len(ChunkCalls) = 2
    /\ \E id \in 1..MaxRecords :
        Cardinality({c \in CallsWith(id) : llm_calls[c].start = start}) = 2

\* The payload of the k-th item's row in the call failed the schema.
FailedValidation(call, k) ==
    /\ ~call.raised
    /\ RowFor(call.items[k], call.kinds[k]).payload # NoneVal
    /\ ~validate(RowFor(call.items[k], call.kinds[k]).payload)

\* The ids of the call's items whose payload failed the schema, in order.
InvalidIds(call) ==
    LET failed == SelectSeq([k \in 1..Len(call.items) |-> k],
                            LAMBDA k : FailedValidation(call, k))
    IN  [i \in 1..Len(failed) |-> call.items[failed[i]].id]

\* C28: every item of a chunk's first call carries no suffix; the second
\* call follows a first call that returned, holds exactly the items whose
\* first payload failed the schema, in their order, and each carries the
\* corrective suffix.
C28_SecondCallIsTheInvalidItems ==
    \A c \in 1..Len(llm_calls) :
        /\ llm_calls[c].attempt \in {0, 1}
        /\ llm_calls[c].attempt = 0 =>
            \A k \in 1..Len(llm_calls[c].items) :
                llm_calls[c].items[k].retry_suffix = NoneStr
        /\ llm_calls[c].attempt = 1 =>
            /\ c > 1
            /\ llm_calls[c - 1].start = llm_calls[c].start
            /\ llm_calls[c - 1].attempt = 0
            /\ [k \in 1..Len(llm_calls[c].items) |-> llm_calls[c].items[k].id]
                    = InvalidIds(llm_calls[c - 1])
            /\ \A k \in 1..Len(llm_calls[c].items) :
                llm_calls[c].items[k].retry_suffix = INVALID_SUFFIX

\* A second call was made for one of the two items of the first call; the
\* other item had passed the schema or had failed without a payload.
C28_Witness ==
    \E c \in 2..Len(llm_calls) :
        /\ llm_calls[c].attempt = 1
        /\ Len(llm_calls[c].items) = 1
        /\ Len(llm_calls[c - 1].items) = 2
        /\ \E k \in 1..2 : llm_calls[c - 1].kinds[k] \in {"valid", "no_payload"}

\* C29: an item whose row has no payload is marked llm_call_failed, and an
\* item without a row missing_response, as soon as the call is handled;
\* neither is in a later call of the chunk, and the mark is the one
\* _call_llm_with_retry returns.
C29_NoPayloadIsNotRetried ==
    \A c \in 1..Len(llm_calls) : \A k \in 1..Len(llm_calls[c].kinds) :
        llm_calls[c].kinds[k] \in {"no_payload", "missing"} =>
            /\ \A d \in (c + 1)..Len(llm_calls) :
                llm_calls[d].start = llm_calls[c].start
                    => SentAt(llm_calls[d], llm_calls[c].items[k].id) = {}
            /\ (llm_calls[c].start = start /\ pc \in {"llm", "broke", "merge", "deferred"}) =>
                FailureOf(llm_calls[c].items[k].id)
                    = IF llm_calls[c].kinds[k] = "no_payload"
                      THEN "llm_call_failed" ELSE "missing_response"

\* _call_llm_with_retry has returned after a second call; on the first, one
\* item had a row without payload and is llm_call_failed, the other failed
\* the schema and was sent again.
C29_Witness ==
    /\ pc = "merge"
    /\ Len(ChunkCalls) = 2
    /\ \E k \in 1..Len(ChunkCalls[1].kinds) :
        /\ ChunkCalls[1].kinds[k] = "no_payload"
        /\ FailureOf(ChunkCalls[1].items[k].id) = "llm_call_failed"
        /\ SentAt(ChunkCalls[2], ChunkCalls[1].items[k].id) = {}
    /\ \E k \in 1..Len(ChunkCalls[1].kinds) : ChunkCalls[1].kinds[k] = "invalid"

\* The order in which _process_chunk consults the tiers.
TierOrder == <<"batch", "cache", "index">>

\* The ids of the current chunk's records that missed every tier, in order.
MissIds ==
    LET misses == SelectSeq(probes, LAMBDA p : p.start = start /\ p.tier = "miss")
    IN  [i \in 1..Len(misses) |-> misses[i].id]

\* C30: the tiers are consulted in the order in-batch dedup, exact cache,
\* near-duplicate index, each only after the one before missed: a deferred
\* duplicate saw no cache or index lookup, an exact-cache hit no index
\* lookup, and the chunk's PendingItems are the records that missed all three.
C30_TiersProbedInOrder ==
    /\ \A p \in 1..Len(probes) :
        /\ Len(probes[p].lookups) \in 1..3
        /\ probes[p].lookups = SubSeq(TierOrder, 1, Len(probes[p].lookups))
        /\ probes[p].tier = "dup" <=> Len(probes[p].lookups) = 1
        /\ probes[p].tier = "hit" <=> Len(probes[p].lookups) = 2
        /\ probes[p].tier \in {"near", "miss"} <=> Len(probes[p].lookups) = 3
    /\ pc \in {"probe", "llm", "broke", "merge", "deferred"} =>
        [i \in 1..Len(pending) |-> pending[i].id] = MissIds

\* The first record of a chunk missed all three tiers and is pending; its
\* duplicate was deferred after the in-batch lookup alone.
C30_Witness ==
    /\ pc = "probe"
    /\ Len(pending) = 1
    /\ \E p, q \in 1..Len(probes) :
        /\ probes[p].start = start /\ probes[q].start = start
        /\ probes[p].tier = "miss" /\ probes[p].id = pending[1].id
        /\ probes[p].lookups = TierOrder
        /\ probes[q].tier = "dup" /\ probes[q].lookups = <<"batch">>

\* C31: a record resolved by a near-duplicate hit is in no classifier call,
\* the matched payload is in the exact cache under the record's own key, and
\* once _process_records is over it has returned an item for the record
\* that carries a result and cached = true.
C31_NearHitIsCachedResult ==
    \A p \in 1..Len(probes) :
        probes[p].tier = "near" =>
            /\ ~Sent(probes[p].id)
            /\ cache_get(cache, redis_available,
                         exact_cache_key(records[probes[p].id].raw_name))
                    = probes[p].payload
            /\ Done =>
                /\ pc = "returned"
                /\ \E i \in ItemsOf(probes[p].id) :
                    HasResult(responses[i]) /\ responses[i].cached

\* The canonical of the payload of a stand-alone call is empty or blank.
GuardCanonicalEmpty == Strip(guard_input.payload.canonical, Whitespace) = <<>>

\* The flag tuples that start with empty_canonical and go on in the order
\* low_token_overlap, fallback_display.
EmptyCanonicalFlags ==
    { <<"empty_canonical">>,
      <<"empty_canonical", "low_token_overlap">>,
      <<"empty_canonical", "fallback_display">>,
      <<"empty_canonical", "low_token_overlap", "fallback_display">> }

\* C32: for a payload whose canonical is empty or whitespace, apply_guardrails
\* returns confidence 0 whatever the payload's confidence, the cleaned
\* raw_name as canonical, and flags that start with empty_canonical, with
\* low_token_overlap and fallback_display after it in that order.
C32_EmptyCanonicalFallback ==
    (guard_output # NoneVal /\ GuardCanonicalEmpty) =>
        /\ guard_output.confidence = 0
        /\ guard_output.canonical = clean_company_name(guard_input.raw_name)
        /\ guard_output.flags \in EmptyCanonicalFlags

\* A blank canonical with confidence 0.95 for a raw name that cleans to
\* nothing: confidence 0 and all three flags; and the states where the raw
\* name gives a canonical are reached as well.
C32_Witness ==
    /\ guard_output # NoneVal
    /\ guard_input.payload.canonical = <<" ">>
    /\ guard_input.payload.confidence = 95
    /\ guard_output.confidence = 0
    /\ \/ /\ guard_input.raw_name = <<".">>
          /\ guard_output.flags
                = <<"empty_canonical", "low_token_overlap", "fallback_display">>
       \/ /\ guard_input.raw_name = <<"ACME", ",", " ", "INC", ".">>
          /\ guard_output.canonical = <<"Acme">>
          /\ guard_output.flags = <<"empty_canonical">>

\* The raw names of the items of a classifier call.
NamesIn(call) == {call.items[k].raw_name : k \in 1..Len(call.items)}

\* C33: 'Acme Inc' and 'ACME, INC.' have the same cache key, so that of two
\* records of a chunk with these names the later one is deferred: the two
\* are never pending together and no classifier call holds both.
C33_SpellingsShareKey ==
    /\ \A i, j \in 1..Len(pending) :
        (pending[i].raw_name = AcmeInc /\ pending[j].raw_name = AcmeIncUpper)
            => pending[i].cache_key = pending[j].cache_key
    /\ \A c \in 1..Len(llm_calls) :
        ~({AcmeInc, AcmeIncUpper} \subseteq NamesIn(llm_calls[c]))

\* C34: a cache_get of a key returns the payload of the last cache_set of
\* that key, whether the remote store was reachable, unreachable from the
\* start, or raised on a single call.
C34_GetReturnsLastSet ==
    (cache_read # NoneVal /\ cache_written[cache_read.key] # NoneVal) =>
        cache_read.value = cache_written[cache_read.key]

\* The step leaves the entry of the key as it was, in both stores.
SameEntry(key) ==
    /\ cache'.redis[key] = cache.redis[key]
    /\ cache'.memory[key] = cache.memory[key]

\* No step of the chunk writes the key of an item that is in failures, and
\* nothing is written while the deferred duplicates are resolved.
FailedKeysKept ==
    /\ \A i \in 1..Len(failures) :
           SameEntry(DictGet(cache_key_by_id, failures[i][1]))
    /\ pc = "deferred" => cache' = cache

\* The returned error items of chunks before the one of the probe, for the
\* key of the probed record.
EarlierErrors(probe) ==
    {i \in 1..Len(responses) :
        /\ HasError(responses[i])
        /\ responses[i].id <= probe.start
        /\ exact_cache_key(responses[i].raw_name)
               = exact_cache_key(records[probe.id].raw_name)}

SecondCallRaised == Len(ChunkCalls) = 2 /\ ChunkCalls[2].raised

\* The ids whose row passed validation in the first call of the chunk.
PassedFirst ==
    {ChunkCalls[1].items[k].id : k \in {j \in 1..Len(ChunkCalls[1].items) :
                                            ChunkCalls[1].kinds[j] = "valid"}}

\* C36: when the classifier call of attempt 2 raised, the items that passed
\* validation on attempt 1 are in successes and not in failures, every item
\* of the retry queue is in failures, and once _process_records is over
\* each of those successes has been returned with a result and its payload
\* is in the exact cache.
C36_SecondRaiseKeepsSuccesses ==
    (SecondCallRaised /\ (AfterRetry \/ Done)) =>
        /\ \A id \in PassedFirst :
            /\ DictHas(successes, id) /\ ~DictHas(failures, id)
            /\ Done =>
                /\ pc = "returned"
                /\ \E i \in ItemsOf(id) : HasResult(responses[i])
                /\ cache_get(cache, redis_available,
                             exact_cache_key(records[id].raw_name)) = DictGet(successes, id)
        /\ \A k \in 1..Len(ChunkCalls[2].items) :
               DictHas(failures, ChunkCalls[2].items[k].id)

\* The call of normalize_batch_gpt4o_mini is over: it returned or it raised.
BatchOver == pc \in {"batch_returned", "batch_raised"}

\* C37: on the sequential path (at most 5 items) as on the thread-pool
\* path (more than 5), an item whose own classifier call returned a valid
\* payload has its row, with that payload, in what the call hands back,
\* whatever the calls of the other items did; it is not lost to another
\* item's exception.
C37_OutcomeIndependentOfPath ==
    BatchOver =>
        \A i \in 1..Len(futures) :
            (futures[i].state = "collected" /\ futures[i].payload = ValidPayload) =>
                /\ pc = "batch_returned"
                /\ \E k \in 1..Len(batch_return) :
                       batch_return[k] = BatchRow(batch_items[i], ValidPayload)

\* C38: a job that run_ingest_job has set to running eventually has the
\* status done, partial or failed, whatever the ingest target is.
C38_RunningJobEnds ==
    (job_status = "running") ~> (job_status \in {"done", "partial", "failed"})

\* The first occurrence of the key has its error item in the chunk's outputs.
FirstFailed(cache_key) ==
    \E i \in 1..Len(outputs) :
        /\ HasError(outputs[i])
        /\ outputs[i].id = DictGet(seen_in_batch, cache_key)

\* Lines 148-164 have dealt with the k-th deferred duplicate: the loop has
\* passed it, or has raised on it.
DeferredSettled(k) ==
    \/ pc = "deferred" /\ k < idx
    \/ pc = "raised" /\ k = idx

\* C39: within one chunk a deferred duplicate agrees with the first
\* occurrence of its cache key, also when another request writes that key
\* in between: when the first occurrence has ended in an error, the
\* duplicate, once dealt with, has the item duplicate_of_failed_item.
C39_DuplicatesAgreeWithFirst ==
    \A k \in 1..Len(deferred_duplicates) :
        (FirstFailed(deferred_duplicates[k][2]) /\ DeferredSettled(k)) =>
            \E i \in 1..Len(outputs) :
                /\ outputs[i].id = deferred_duplicates[k][1].id
                /\ outputs[i].error = "duplicate_of_failed_item"

====
